---------------------------- MODULE Spec2Model ----------------------------
(***************************************************************************)
(* Verification model of the schema cache, the introspection lock, the     *)
(* DatabaseManager.introspectSchema flow, the query tracker / slow query   *)
(* detector, the utility functions (relationships, join paths, schema      *)
(* version), the write checks of runQuery and the index recommendations    *)
(* of mcp-database-server.                                                 *)
(*                                                                         *)
(* Strings of the program are modelled as sequences of character codes,    *)
(* so that lower-casing, suffix matching, concatenation and hashing are    *)
(* computed as the code computes them.  A Date is a record [ms |-> n]; its *)
(* JSON form is the record [iso |-> n] (Date.prototype.toJSON).            *)
(***************************************************************************)
EXTENDS Integers, Sequences, FiniteSets, TLC

(***************************************************************************)
(* Bounds of the model                                                     *)
(***************************************************************************)
\* number of concurrent callers (logical tasks of the event loop)
NumTasks == 3
\* the clock advances at most this many times (by MsPerTick)
MaxTicks == 1
\* total number of calls started in one behaviour
MaxCalls == 3
\* total number of track() calls after the initial history
MaxTracks == 3
\* total number of getSlowQueryAlerts() calls
MaxAlertCalls == 2

Tasks == 1..NumTasks
DbIds == {"db1"}
\* null / undefined where the value would otherwise be a record
Absent == [absent |-> TRUE]

(***************************************************************************)
(* Strings                                                                 *)
(***************************************************************************)
\* "public"
s_public == <<112, 117, 98, 108, 105, 99>>
\* "user"
s_user == <<117, 115, 101, 114>>
\* "orders"
s_orders == <<111, 114, 100, 101, 114, 115>>
\* "id"
s_id == <<105, 100>>
\* "user_id"
s_user_id == <<117, 115, 101, 114, 95, 105, 100>>
\* "fk_user"
s_fk_user == <<102, 107, 95, 117, 115, 101, 114>>
\* "."
s_dot == <<46>>
\* ","
s_comma == <<44>>
\* the arrow U+2192 of getRelationshipKey
s_arrow == <<8594>>

\* String.prototype.toLowerCase on the ASCII range
toLowerCase(s) == [i \in DOMAIN s |-> IF s[i] \in 65..90 THEN s[i] + 32 ELSE s[i]]

\* Array.prototype.join
RECURSIVE join(_, _)
join(arr, sep) ==
  IF arr = <<>> THEN <<>>
  ELSE IF Len(arr) = 1 THEN arr[1]
  ELSE arr[1] \o sep \o join(Tail(arr), sep)

\* "." of a JavaScript regular expression: any character but a line terminator
IsDotChar(c) == c \notin {10, 13, 8232, 8233}

\* columnName.match(/^(.+?)_id$/): the captured group (never empty), or <<>>
\* when the pattern does not match
MatchUnderscoreId(name) ==
  LET n == Len(name) IN
  IF /\ n > 3
     /\ SubSeq(name, n - 2, n) = <<95, 105, 100>>
     /\ \A i \in 1..(n - 3) : IsDotChar(name[i])
  THEN SubSeq(name, 1, n - 3)
  ELSE <<>>

\* columnName.match(/^(.+?)id$/i): the captured group, or <<>>
MatchId(name) ==
  LET n == Len(name) IN
  IF /\ n > 2
     /\ toLowerCase(SubSeq(name, n - 1, n)) = <<105, 100>>
     /\ \A i \in 1..(n - 2) : IsDotChar(name[i])
  THEN SubSeq(name, 1, n - 2)
  ELSE <<>>

(***************************************************************************)
(* Schema metadata (types.ts) and the schemas the adapter may return       *)
(***************************************************************************)
Date(ms) == [ms |-> ms]

Column(name) == [name |-> name, dataType |-> "integer", nullable |-> FALSE]

PrimaryKey(cols) == [name |-> "pk", columns |-> cols, isUnique |-> TRUE, isPrimary |-> TRUE]

\* user(id PK)
UserTable ==
  [schema |-> s_public, name |-> s_user, type |-> "table",
   columns |-> <<Column(s_id)>>, primaryKey |-> PrimaryKey(<<s_id>>),
   indexes |-> <<>>, foreignKeys |-> <<>>]

\* orders(id PK, user_id), no declared foreign key
OrdersTable ==
  [schema |-> s_public, name |-> s_orders, type |-> "table",
   columns |-> <<Column(s_id), Column(s_user_id)>>, primaryKey |-> PrimaryKey(<<s_id>>),
   indexes |-> <<>>, foreignKeys |-> <<>>]

\* orders(id PK, user_id) with the declared foreign key user_id -> user.id
OrdersTableFk ==
  [OrdersTable EXCEPT !.foreignKeys =
     <<[name |-> s_fk_user, columns |-> <<s_user_id>>, referencedSchema |-> s_public,
        referencedTable |-> s_user, referencedColumns |-> <<s_id>>]>>]

\* what adapter.introspect returns at time ms: one of two database contents
SchemaV1(dbId, ms) ==
  [dbId |-> dbId, dbType |-> "sqlite",
   schemas |-> <<[name |-> s_public, tables |-> <<UserTable, OrdersTable>>]>>,
   introspectedAt |-> Date(ms), version |-> "v1"]

SchemaV2(dbId, ms) ==
  [dbId |-> dbId, dbType |-> "sqlite",
   schemas |-> <<[name |-> s_public, tables |-> <<UserTable, OrdersTableFk>>]>>,
   introspectedAt |-> Date(ms), version |-> "v2"]

SchemaMakers == {"v1", "v2"}
MakeSchema(which, dbId, ms) == IF which = "v1" THEN SchemaV1(dbId, ms) ELSE SchemaV2(dbId, ms)

(***************************************************************************)
(* Relationship engine: utils.inferRelationships, cache.buildRelationships *)
(***************************************************************************)
\* all tables of a schema with the name of the schema object that lists them,
\* in the iteration order of the two nested for loops
RECURSIVE TablesOf(_)
TablesOf(schemaObjs) ==
  IF schemaObjs = <<>> THEN <<>>
  ELSE [i \in DOMAIN schemaObjs[1].tables |->
          [schemaName |-> schemaObjs[1].name, table |-> schemaObjs[1].tables[i]]]
       \o TablesOf(Tail(schemaObjs))

\* the Map tableLookup as the sequence of its set() calls; a later set wins
RECURSIVE tableLookup(_)
tableLookup(tabs) ==
  IF tabs = <<>> THEN <<>>
  ELSE LET t == tabs[1]
           pk == IF "primaryKey" \in DOMAIN t.table THEN t.table.primaryKey.columns ELSE <<>>
       IN <<[key |-> toLowerCase(t.table.name), schema |-> t.schemaName, pk |-> pk],
            [key |-> toLowerCase(t.schemaName \o s_dot \o t.table.name),
             schema |-> t.schemaName, pk |-> pk]>>
          \o tableLookup(Tail(tabs))

\* tableLookup.get(key): the value of the last set() of that key, or Absent
LookupGet(lookup, key) ==
  LET hits == {i \in DOMAIN lookup : lookup[i].key = key} IN
  IF hits = {} THEN Absent
  ELSE lookup[CHOOSE i \in hits : \A j \in hits : j <= i]

\* InferOne that points the relationship at the referencing column's own name
\* in the referenced table instead of at the referenced primary key
InferOneSameColumn(lookup, schemaName, table, column, matched) ==
  IF matched = <<>> THEN <<>>
  ELSE LET referencedTableName == toLowerCase(matched)
           referencedTable == LookupGet(lookup, referencedTableName)
       IN IF referencedTable # Absent /\ Len(referencedTable.pk) > 0
          THEN <<[fromSchema |-> schemaName, fromTable |-> table.name,
                  fromColumns |-> <<column.name>>,
                  toSchema |-> referencedTable.schema, toTable |-> referencedTableName,
                  toColumns |-> <<column.name>>,
                  type |-> "inferred", confidence |-> "0.7"]>>
          ELSE <<>>

\* the relationship one pattern yields for one column, as a sequence of 0 or 1
InferOne(lookup, schemaName, table, column, matched) ==
  IF matched = <<>> THEN <<>>
  ELSE LET referencedTableName == toLowerCase(matched)
           referencedTable == LookupGet(lookup, referencedTableName)
       IN IF referencedTable # Absent /\ Len(referencedTable.pk) > 0
          THEN <<[fromSchema |-> schemaName, fromTable |-> table.name,
                  fromColumns |-> <<column.name>>,
                  toSchema |-> referencedTable.schema, toTable |-> referencedTableName,
                  toColumns |-> referencedTable.pk,
                  type |-> "inferred", confidence |-> "0.7"]>>
          ELSE <<>>

RECURSIVE InferColumns(_, _, _, _)
InferColumns(lookup, schemaName, table, cols) ==
  IF cols = <<>> THEN <<>>
  ELSE LET columnName == toLowerCase(cols[1].name) IN
       InferOne(lookup, schemaName, table, cols[1], MatchUnderscoreId(columnName))
       \o InferOne(lookup, schemaName, table, cols[1], MatchId(columnName))
       \o InferColumns(lookup, schemaName, table, Tail(cols))

RECURSIVE InferTables(_, _)
InferTables(lookup, tabs) ==
  IF tabs = <<>> THEN <<>>
  ELSE InferColumns(lookup, tabs[1].schemaName, tabs[1].table, tabs[1].table.columns)
       \o InferTables(lookup, Tail(tabs))

inferRelationships(schema) ==
  LET tabs == TablesOf(schema.schemas) IN InferTables(tableLookup(tabs), tabs)

getRelationshipKey(rel) ==
  rel.fromSchema \o s_dot \o rel.fromTable \o s_dot \o join(rel.fromColumns, s_comma)
  \o s_arrow
  \o rel.toSchema \o s_dot \o rel.toTable \o s_dot \o join(rel.toColumns, s_comma)

\* one foreign_key relationship per declared foreign key
RECURSIVE ExplicitRelationships(_)
ExplicitRelationships(tabs) ==
  IF tabs = <<>> THEN <<>>
  ELSE [i \in DOMAIN tabs[1].table.foreignKeys |->
          LET fk == tabs[1].table.foreignKeys[i] IN
          [fromSchema |-> tabs[1].schemaName, fromTable |-> tabs[1].table.name,
           fromColumns |-> fk.columns,
           toSchema |-> fk.referencedSchema, toTable |-> fk.referencedTable,
           toColumns |-> fk.referencedColumns, type |-> "foreign_key"]]
       \o ExplicitRelationships(Tail(tabs))

\* the loop that appends the inferred relationships whose key is not yet present
RECURSIVE AddInferred(_, _)
AddInferred(relationships, inferred) ==
  IF inferred = <<>> THEN relationships
  ELSE LET keys == {getRelationshipKey(relationships[i]) : i \in DOMAIN relationships} IN
       IF getRelationshipKey(inferred[1]) \notin keys
       THEN AddInferred(Append(relationships, inferred[1]), Tail(inferred))
       ELSE AddInferred(relationships, Tail(inferred))

buildRelationships(schema) ==
  AddInferred(ExplicitRelationships(TablesOf(schema.schemas)), inferRelationships(schema))

(***************************************************************************)
(* State                                                                   *)
(***************************************************************************)
VARIABLES
  now,                \* Date.now(), in ms
  config,             \* cacheTtlMinutes of the manager options and
                      \* introspection.maxTables of each database (0: not set)
  cache,              \* SchemaCache.cache: dbId -> CacheEntry, Absent: no key
  disk,               \* the file <cacheDir>/<dbId>.json of each dbId
  writes,             \* the saveToDisk calls in flight
  introspectionLocks, \* SchemaCache.introspectionLocks: dbId -> the task whose
                      \* promise is stored, 0: no key
  pc,                 \* where each task stands in its current call
  call,               \* the call a task is running: operation and arguments
  awaiting,           \* the task whose lock promise a task awaits
  outcome,            \* how the adapter settled the introspection of a task
  result,             \* what the last finished call of a task returned / threw
  calls,              \* number of calls started
  ticks,              \* number of clock advances
  log,                \* history: what has happened so far (see LogInit)
  history,            \* QueryTracker.history: dbId -> entries
  slowQueryAlerts,    \* QueryOptimizer.slowQueryAlerts: dbId -> alerts
  tracked,            \* history: every entry ever passed to track(), per dbId
  seenSlow,           \* history: the slow entries detectSlowQueries has visited
  alertCalls,         \* number of getSlowQueryAlerts calls
  alertsAsOf,         \* history: how many entries had been tracked at the last
                      \* getSlowQueryAlerts of each dbId
  input,              \* the arguments the utility functions are applied to
  output              \* what the last application of a utility function returned

cacheVars == <<cache, disk, writes>>
taskVars == <<pc, call, awaiting, outcome, result>>
trackerVars == <<history, slowQueryAlerts, tracked, seenSlow, alertCalls, alertsAsOf>>
vars == <<now, config, cache, disk, writes, introspectionLocks, pc, call,
          awaiting, outcome, result, calls, ticks, log, history, slowQueryAlerts,
          tracked, seenSlow, alertCalls, alertsAsOf, input, output>>

\* one step of the model clock, in ms
MsPerTick == 90000
\* values of cacheTtlMinutes and of introspection.maxTables (0: not configured)
TtlChoices == {1, 2}
MaxTablesChoices == {0, 2}

(***************************************************************************)
(* SchemaCache: entries, expiry, the durable record                        *)
(***************************************************************************)
\* new Date().getTime() of a Date
getTime(d) == d.ms

isExpired(entry) ==
  LET age == now - getTime(entry.cachedAt)
      ttlMs == entry.ttlMinutes * 60 * 1000
  IN age > ttlMs

\* the entry set() builds; ttlMinutes = 0 stands for an omitted (or zero) argument,
\* both falsy in `ttlMinutes || this._defaultTtlMinutes`
NewEntry(schema, ttlMinutes) ==
  [schema |-> schema,
   relationships |-> buildRelationships(schema),
   cachedAt |-> Date(now),
   ttlMinutes |-> IF ttlMinutes # 0 THEN ttlMinutes ELSE config.cacheTtlMinutes]

\* Date.prototype.toJSON and new Date(<ISO string>)
toJSON(d) == [iso |-> d.ms]
NewDate(x) == IF "iso" \in DOMAIN x THEN Date(x.iso) ELSE x

\* JSON.stringify(entry, null, 2) followed by JSON.parse: the Dates become strings
stringify(entry) ==
  [entry EXCEPT !.cachedAt = toJSON(@), !.schema.introspectedAt = toJSON(@)]

\* files: no file, a file opened for writing and still empty, a file holding JSON
NoFile == [kind |-> "nofile"]
EmptyFile == [kind |-> "empty"]
CorruptFile == [kind |-> "corrupt"]
JsonFile(data) == [kind |-> "json", data |-> data]

\* loadFromDisk on the bytes readFile returned:
\* [ok |-> TRUE, entry |-> e or Absent (ENOENT)] or [ok |-> FALSE] (it throws)
loadFromDisk(file) ==
  IF file.kind = "nofile" THEN [ok |-> TRUE, entry |-> Absent]
  ELSE IF file.kind = "json"
  THEN [ok |-> TRUE,
        entry |-> [file.data EXCEPT !.cachedAt = NewDate(@),
                                    !.schema.introspectedAt = NewDate(@)]]
  ELSE [ok |-> FALSE]

\* the synchronous head of get(): the memory entry, if present and not expired
MemoryHit(dbId) == cache[dbId] # Absent /\ ~isExpired(cache[dbId])

\* a variant of the tail of get() that takes the durable entry whatever its age
GetFromDiskAnyAge(file) ==
  LET loaded == loadFromDisk(file) IN
  IF loaded.ok /\ loaded.entry # Absent THEN loaded.entry ELSE Absent

\* a variant of the tail of get() without the try/catch around loadFromDisk:
\* what loadFromDisk throws reaches the caller of get()
GetFromDiskNoCatch(file) ==
  LET loaded == loadFromDisk(file) IN
  IF ~loaded.ok THEN [thrown |-> "loadFromDisk"]
  ELSE IF loaded.entry # Absent /\ ~isExpired(loaded.entry) THEN loaded.entry
  ELSE Absent

\* the tail of get(), run when readFile has settled with `file`: the value get() returns
GetFromDisk(file) ==
  LET loaded == loadFromDisk(file) IN
  IF loaded.ok /\ loaded.entry # Absent /\ ~isExpired(loaded.entry)
  THEN loaded.entry
  ELSE Absent

\* what get(dbId) would return if it ran to completion in the current state
GetNow(dbId) == IF MemoryHit(dbId) THEN cache[dbId] ELSE GetFromDisk(disk[dbId])

\* the size of the JSON text of a record: it grows with the tables, columns,
\* foreign keys and relationships written
RECURSIVE SumLen(_)
SumLen(seqs) == IF seqs = <<>> THEN 0 ELSE Len(seqs[1]) + SumLen(Tail(seqs))
JsonSize(data) ==
  LET tabs == TablesOf(data.schema.schemas) IN
  Len(tabs) + SumLen([i \in DOMAIN tabs |-> tabs[i].table.columns])
  + SumLen([i \in DOMAIN tabs |-> tabs[i].table.foreignKeys]) + Len(data.relationships)

(***************************************************************************)
(* The file system under saveToDisk (fs.writeFile) and clear (fs.unlink)   *)
(***************************************************************************)
\* a saveToDisk call in flight: writeFile opens the file with O_CREAT|O_TRUNC,
\* writes the text at offset 0 and closes.  detached: the file was unlinked
\* after this call opened it, so the text goes to an inode no path names.
NewWrite(dbId, entry) ==
  [dbId |-> dbId, data |-> stringify(entry), stage |-> "queued", detached |-> FALSE]

\* open(path, 'w'): the file exists and is empty
WriteOpen(w) ==
  /\ w \in writes /\ w.stage = "queued"
  /\ disk' = [disk EXCEPT ![w.dbId] = EmptyFile]
  /\ writes' = (writes \ {w}) \cup {[w EXCEPT !.stage = "open"]}
  /\ UNCHANGED <<now, config, input, output, cache, introspectionLocks, taskVars, calls, ticks, log,
                 trackerVars>>

\* a variant of the write that changes the record in place, field by field:
\* over a record it overwrites the schema and leaves the other fields
WriteDataSchemaOnly(w) ==
  /\ w \in writes /\ w.stage = "open"
  /\ disk' = IF w.detached THEN disk
             ELSE [disk EXCEPT ![w.dbId] =
                     IF @.kind = "json"
                     THEN JsonFile([@.data EXCEPT !.schema = w.data.schema])
                     ELSE JsonFile(w.data)]
  /\ writes' = writes \ {w}
  /\ UNCHANGED <<now, config, input, output, cache, introspectionLocks, taskVars, calls, ticks, log,
                 trackerVars>>

\* write + close: the text lands at offset 0 of the file this call opened; what
\* another writer left beyond the end of the text stays in the file
WriteData(w) ==
  /\ w \in writes /\ w.stage = "open"
  /\ disk' = IF w.detached THEN disk
             ELSE [disk EXCEPT ![w.dbId] =
                     IF @.kind = "empty" THEN JsonFile(w.data)
                     ELSE IF @.kind = "json" /\ JsonSize(@.data) <= JsonSize(w.data)
                     THEN JsonFile(w.data)
                     ELSE CorruptFile]
  /\ writes' = writes \ {w}
  /\ UNCHANGED <<now, config, input, output, cache, introspectionLocks, taskVars, calls, ticks, log,
                 trackerVars>>

\* writeFile rejects (EACCES, ENOSPC, ...): set() logs the error and nothing else
WriteError(w) ==
  /\ w \in writes /\ w.stage = "queued"
  /\ writes' = writes \ {w}
  /\ log' = [log EXCEPT !.failedWrites = @ \cup {w.dbId}]
  /\ UNCHANGED <<now, config, input, output, cache, disk, introspectionLocks, taskVars, calls, ticks,
                 trackerVars>>

\* fs.unlink(path): the path is gone; writers that hold the file open keep their inode
Unlinked(dbId) ==
  {IF w.dbId = dbId /\ w.stage = "open" THEN [w EXCEPT !.detached = TRUE] ELSE w : w \in writes}

\* time passes
Tick ==
  /\ ticks < MaxTicks
  /\ ticks' = ticks + 1
  /\ now' = now + MsPerTick
  /\ UNCHANGED <<config, input, output, cacheVars, introspectionLocks, taskVars, calls, log, trackerVars>>

(***************************************************************************)
(* History kept for the properties; no action reads it                     *)
(***************************************************************************)
LogInit ==
  [failures |-> FALSE,          \* an introspection has failed
   force |-> FALSE,             \* introspectSchema was called with forceRefresh
   introspections |-> 0,        \* the number of adapter.introspect invocations
   stored |-> {},               \* the entries set() has stored
   cleared |-> [d \in DbIds |-> FALSE],  \* clear(d) returned, and no set(d) was
                                         \* called since that clear(d) was called
   lastSet |-> [d \in DbIds |-> Absent], \* the entry of the last set(d), if no
                                         \* clear(d) was called since
   queried |-> {},              \* the statements passed to adapter.query
   resolved |-> {},             \* the runQuery calls whose adapter.query resolved
   failedWrites |-> {},         \* the databases one of whose writeFile calls rejected
   clearCalls |-> {}]           \* the databases clear() was called for

LogSet(l, dbId, entry) ==
  [l EXCEPT !.stored = @ \cup {entry}, !.cleared[dbId] = FALSE, !.lastSet[dbId] = entry]

(***************************************************************************)
(* Tasks                                                                   *)
(***************************************************************************)
NoCall == [op |-> "none"]
NoResult == [kind |-> "none"]
NoOutcome == [settled |-> FALSE]

\* what a call gave its caller, and when
Returned(c, value) ==
  IF value = Absent THEN [kind |-> "null", call |-> c, at |-> now]
  ELSE [kind |-> "entry", call |-> c, at |-> now, entry |-> value]
Threw(c, error) == [kind |-> "error", call |-> c, at |-> now, error |-> error]

\* a task stands between the return of acquireIntrospectionLock and the call of
\* the release function it was given
LockedSection == {"locked", "recheck_read", "introspecting"}
Holders(dbId) == {t \in Tasks : pc[t] \in LockedSection /\ call[t].dbId = dbId}

\* cache.set(dbId, diskEntry) of get(), when the durable entry is usable
Promote(dbId, value) == IF value # Absent THEN [cache EXCEPT ![dbId] = value] ELSE cache

\* the tasks whose `await existingLock` continues when task t resolves its promise
Waiters(t) == {u \in Tasks : pc[u] = "wait_lock" /\ awaiting[u] = t}

\* acquireIntrospectionLock up to its first suspension: wait for the promise in
\* the map, or store a new promise at once
Acquire(t, c) ==
  IF introspectionLocks[c.dbId] # 0
  THEN /\ pc' = [pc EXCEPT ![t] = "wait_lock"]
       /\ awaiting' = [awaiting EXCEPT ![t] = introspectionLocks[c.dbId]]
       /\ call' = [call EXCEPT ![t] = [c EXCEPT !.waited = TRUE]]
       /\ UNCHANGED introspectionLocks
  ELSE /\ pc' = [pc EXCEPT ![t] = "locked"]
       /\ introspectionLocks' = [introspectionLocks EXCEPT ![c.dbId] = t]
       /\ call' = [call EXCEPT ![t] = c]
       /\ UNCHANGED awaiting

\* a variant of the release function whose resolve reaches one waiter only:
\* the other tasks that await the promise are never continued
ReleaseWakesOne(t, dbId) ==
  LET first == IF Waiters(t) = {} THEN {}
               ELSE {CHOOSE u \in Waiters(t) : \A v \in Waiters(t) : u <= v}
  IN /\ pc' = [u \in Tasks |-> IF u = t THEN "idle"
                               ELSE IF u \in first THEN "lock_ready" ELSE pc[u]]
     /\ awaiting' = [u \in Tasks |-> IF u \in first THEN 0 ELSE awaiting[u]]
     /\ introspectionLocks' = [introspectionLocks EXCEPT ![dbId] = 0]

\* the release function, followed by the return of introspectSchema:
\* releaseLock!() resolves the promise of t, then the key is deleted
ReleaseAndFinish(t, dbId) ==
  /\ pc' = [u \in Tasks |-> IF u = t THEN "idle"
                            ELSE IF u \in Waiters(t) THEN "lock_ready" ELSE pc[u]]
  /\ awaiting' = [u \in Tasks |-> IF u \in Waiters(t) THEN 0 ELSE awaiting[u]]
  /\ introspectionLocks' = [introspectionLocks EXCEPT ![dbId] = 0]

\* the tasks are interchangeable: a new call runs as the lowest idle one
Free(t) == pc[t] = "idle" /\ \A u \in Tasks : u < t => pc[u] # "idle"

\* introspectSchema(dbId, forceRefresh) up to its first suspension
IntrospectCall(t, dbId, forceRefresh) ==
  /\ Free(t) /\ calls < MaxCalls
  /\ calls' = calls + 1
  /\ LET c == [op |-> "introspectSchema", dbId |-> dbId, forceRefresh |-> forceRefresh,
               waited |-> FALSE] \* waited: the call had to wait for the lock
     IN
     /\ log' = [log EXCEPT !.force = @ \/ forceRefresh]
     /\ outcome' = [outcome EXCEPT ![t] = NoOutcome]
     /\ IF forceRefresh
        THEN /\ Acquire(t, c)
             /\ UNCHANGED result
        ELSE IF MemoryHit(dbId)
        THEN /\ result' = [result EXCEPT ![t] = Returned(c, cache[dbId])]
             /\ UNCHANGED <<pc, call, awaiting, introspectionLocks>>
        ELSE /\ pc' = [pc EXCEPT ![t] = "check_read"]
             /\ call' = [call EXCEPT ![t] = c]
             /\ UNCHANGED <<result, awaiting, introspectionLocks>>
  /\ UNCHANGED <<now, config, input, output, cacheVars, ticks, trackerVars>>

\* fs.readFile of the first cache.get of introspectSchema settles and the get
\* returns: a hit is returned, a miss goes on to acquire the lock
CheckDone(t) ==
  /\ pc[t] = "check_read"
  /\ LET dbId == call[t].dbId
         cached == GetFromDisk(disk[dbId])
     IN /\ cache' = Promote(dbId, cached)
        /\ IF cached # Absent
           THEN /\ pc' = [pc EXCEPT ![t] = "idle"]
                /\ result' = [result EXCEPT ![t] = Returned(call[t], cached)]
                /\ call' = [call EXCEPT ![t] = NoCall]
                /\ UNCHANGED <<awaiting, introspectionLocks>>
           ELSE /\ Acquire(t, call[t])
                /\ UNCHANGED result
  /\ UNCHANGED <<now, config, input, output, disk, writes, outcome, calls, ticks, log, trackerVars>>

\* `await existingLock` continues: the task stores its own promise in the map
LockWake(t) ==
  /\ pc[t] = "lock_ready"
  /\ introspectionLocks' = [introspectionLocks EXCEPT ![call[t].dbId] = t]
  /\ pc' = [pc EXCEPT ![t] = "locked"]
  /\ UNCHANGED <<now, config, input, output, cacheVars, call, awaiting, outcome, result,
                 calls, ticks, log, trackerVars>>

\* a variant of the head of the try block without the second cache.get
LockedStepNoRecheck(t) ==
  /\ pc[t] = "locked"
  /\ pc' = [pc EXCEPT ![t] = "introspecting"]
  /\ log' = [log EXCEPT !.introspections = @ + 1]
  /\ UNCHANGED <<now, config, input, output, cacheVars, introspectionLocks, call, awaiting, outcome,
                 result, calls, ticks, trackerVars>>

\* the head of the try block: the second cache.get unless forceRefresh, then
\* ensureConnected and adapter.introspect
LockedStep(t) ==
  /\ pc[t] = "locked"
  /\ LET dbId == call[t].dbId IN
     IF ~call[t].forceRefresh /\ MemoryHit(dbId)
     THEN /\ result' = [result EXCEPT ![t] = Returned(call[t], cache[dbId])]
          /\ call' = [call EXCEPT ![t] = NoCall]
          /\ ReleaseAndFinish(t, dbId)
          /\ UNCHANGED log
     ELSE IF ~call[t].forceRefresh
     THEN /\ pc' = [pc EXCEPT ![t] = "recheck_read"]
          /\ UNCHANGED <<result, call, awaiting, introspectionLocks, log>>
     ELSE /\ pc' = [pc EXCEPT ![t] = "introspecting"]
          /\ log' = [log EXCEPT !.introspections = @ + 1]
          /\ UNCHANGED <<result, call, awaiting, introspectionLocks>>
  /\ UNCHANGED <<now, config, input, output, cacheVars, outcome, calls, ticks, trackerVars>>

\* fs.readFile of the second cache.get settles and the get returns: a hit is
\* returned through finally, a miss goes on to the adapter
RecheckDone(t) ==
  /\ pc[t] = "recheck_read"
  /\ LET dbId == call[t].dbId
         cached == GetFromDisk(disk[dbId])
     IN /\ cache' = Promote(dbId, cached)
        /\ IF cached # Absent
           THEN /\ result' = [result EXCEPT ![t] = Returned(call[t], cached)]
                /\ call' = [call EXCEPT ![t] = NoCall]
                /\ ReleaseAndFinish(t, dbId)
           ELSE /\ pc' = [pc EXCEPT ![t] = "introspecting"]
                /\ UNCHANGED <<result, call, awaiting, introspectionLocks>>
        /\ log' = IF cached = Absent THEN [log EXCEPT !.introspections = @ + 1] ELSE log
  /\ UNCHANGED <<now, config, input, output, disk, writes, outcome, calls, ticks, trackerVars>>

\* what ensureConnected / adapter.introspect may throw
AdapterErrors == {"connect failed", "introspect failed"}

\* the rest of the try block after a successful introspect, and finally:
\* cache.set(dbId, schema, config?.introspection?.maxTables), cache.get, release
OnIntrospected(t, schema) ==
  LET dbId == call[t].dbId
      entry == NewEntry(schema, config.maxTables[dbId])
  IN /\ cache' = [cache EXCEPT ![dbId] = entry]
     /\ writes' = writes \cup {NewWrite(dbId, entry)}
     /\ result' = [result EXCEPT ![t] = Returned(call[t], entry)]
     /\ log' = LogSet(log, dbId, entry)
     /\ ReleaseAndFinish(t, dbId)
     /\ UNCHANGED disk

\* a variant without `finally`: the error leaves and the lock is kept
OnIntrospectErrorNoRelease(t, error) ==
  /\ result' = [result EXCEPT ![t] = Threw(call[t], error)]
  /\ log' = [log EXCEPT !.failures = TRUE]
  /\ pc' = [pc EXCEPT ![t] = "idle"]
  /\ UNCHANGED <<cacheVars, awaiting, introspectionLocks>>

\* a variant that drops the memory entry of the database when it fails
OnIntrospectErrorInvalidate(t, error) ==
  /\ result' = [result EXCEPT ![t] = Threw(call[t], error)]
  /\ log' = [log EXCEPT !.failures = TRUE]
  /\ ReleaseAndFinish(t, call[t].dbId)
  /\ cache' = [cache EXCEPT ![call[t].dbId] = Absent]
  /\ UNCHANGED <<disk, writes>>

\* the error leaves the try block through finally: release, then rethrow
OnIntrospectError(t, error) ==
  /\ result' = [result EXCEPT ![t] = Threw(call[t], error)]
  /\ log' = [log EXCEPT !.failures = TRUE]
  /\ ReleaseAndFinish(t, call[t].dbId)
  /\ UNCHANGED cacheVars

\* adapter.introspect resolves with the schema the database has now, and
\* introspectSchema runs to its return
AdapterResolve(t, which) ==
  /\ pc[t] = "introspecting"
  /\ LET schema == MakeSchema(which, call[t].dbId, now) IN
     /\ outcome' = [outcome EXCEPT ![t] = [settled |-> TRUE, ok |-> TRUE, schema |-> schema]]
     /\ OnIntrospected(t, schema)
  /\ call' = [call EXCEPT ![t] = NoCall]
  /\ UNCHANGED <<now, config, input, output, calls, ticks, trackerVars>>

\* ensureConnected or adapter.introspect rejects, and introspectSchema throws
AdapterReject(t, error) ==
  /\ pc[t] = "introspecting"
  /\ outcome' = [outcome EXCEPT ![t] = [settled |-> TRUE, ok |-> FALSE, error |-> error]]
  /\ OnIntrospectError(t, error)
  /\ call' = [call EXCEPT ![t] = NoCall]
  /\ UNCHANGED <<now, config, input, output, calls, ticks, trackerVars>>

(***************************************************************************)
(* SchemaCache called directly: get, set, clear                            *)
(***************************************************************************)
\* set(dbId, schema, ttlMinutes): no suspension, the write is left in flight
CacheSet(t, dbId, which, ttlMinutes) ==
  /\ Free(t) /\ calls < MaxCalls
  /\ calls' = calls + 1
  /\ LET entry == NewEntry(MakeSchema(which, dbId, now), ttlMinutes) IN
     /\ cache' = [cache EXCEPT ![dbId] = entry]
     /\ writes' = writes \cup {NewWrite(dbId, entry)}
     /\ log' = LogSet(log, dbId, entry)
  /\ UNCHANGED <<now, config, input, output, disk, introspectionLocks, taskVars, ticks, trackerVars>>

\* get(dbId) up to its first suspension
CacheGet(t, dbId) ==
  /\ Free(t) /\ calls < MaxCalls
  /\ calls' = calls + 1
  /\ LET c == [op |-> "get", dbId |-> dbId] IN
     IF MemoryHit(dbId)
     THEN /\ result' = [result EXCEPT ![t] = Returned(c, cache[dbId])]
          /\ UNCHANGED <<pc, call>>
     ELSE /\ pc' = [pc EXCEPT ![t] = "get_read"]
          /\ call' = [call EXCEPT ![t] = c]
          /\ UNCHANGED result
  /\ UNCHANGED <<now, config, input, output, cacheVars, introspectionLocks, awaiting, outcome,
                 ticks, log, trackerVars>>

\* fs.readFile settles and get(dbId) returns from the disk
CacheGetDone(t) ==
  /\ pc[t] = "get_read"
  /\ LET cached == GetFromDisk(disk[call[t].dbId]) IN
     /\ cache' = Promote(call[t].dbId, cached)
     /\ result' = [result EXCEPT ![t] = Returned(call[t], cached)]
  /\ pc' = [pc EXCEPT ![t] = "idle"]
  /\ call' = [call EXCEPT ![t] = NoCall]
  /\ UNCHANGED <<now, config, input, output, disk, writes, introspectionLocks, awaiting, outcome, calls,
                 ticks, log, trackerVars>>

\* fs.readFile rejects with a code other than ENOENT (EACCES, EISDIR, EIO):
\* loadFromDisk throws it again, get() logs a warning and returns null
CacheGetReadError(t) ==
  /\ pc[t] = "get_read"
  /\ result' = [result EXCEPT ![t] =
                  Returned([op |-> "get", dbId |-> call[t].dbId, readFile |-> "rejected"],
                           Absent)]
  /\ pc' = [pc EXCEPT ![t] = "idle"]
  /\ call' = [call EXCEPT ![t] = NoCall]
  /\ UNCHANGED <<now, config, input, output, cacheVars, introspectionLocks, awaiting,
                 outcome, calls, ticks, log, trackerVars>>

\* clear(dbId) up to `await fs.unlink`
CacheClear(t, dbId) ==
  /\ Free(t) /\ calls < MaxCalls
  /\ calls' = calls + 1
  /\ cache' = [cache EXCEPT ![dbId] = Absent]
  /\ pc' = [pc EXCEPT ![t] = "clear_unlink"]
  /\ call' = [call EXCEPT ![t] = [op |-> "clear", dbId |-> dbId]]
  /\ log' = [log EXCEPT !.lastSet[dbId] = Absent, !.clearCalls = @ \cup {dbId}]
  /\ UNCHANGED <<now, config, input, output, disk, writes, introspectionLocks, awaiting,
                 outcome, result, ticks, trackerVars>>

\* fs.unlink settles (ENOENT is ignored) and clear(dbId) returns
CacheClearDone(t) ==
  /\ pc[t] = "clear_unlink"
  /\ LET dbId == call[t].dbId IN
     /\ disk' = [disk EXCEPT ![dbId] = NoFile]
     /\ writes' = Unlinked(dbId)
     /\ log' = [log EXCEPT !.cleared[dbId] = (log.lastSet[dbId] = Absent)]
     /\ result' = [result EXCEPT ![t] = [kind |-> "void", call |-> call[t], at |-> now]]
  /\ pc' = [pc EXCEPT ![t] = "idle"]
  /\ call' = [call EXCEPT ![t] = NoCall]
  /\ UNCHANGED <<now, config, input, output, cache, introspectionLocks, awaiting, outcome,
                 calls, ticks, trackerVars>>

(***************************************************************************)
(* QueryTracker.track and QueryOptimizer.detectSlowQueries                 *)
(***************************************************************************)
maxHistoryPerDb == 100
slowQueryThresholdMs == 1000

\* "SELECT 1"
q_select == <<83, 69, 76, 69, 67, 84, 32, 49>>
\* "Aa" and "BB": two texts generateQueryId maps to the same id
q_Aa == <<65, 97>>
q_BB == <<66, 66>>
SqlTexts == {q_Aa, q_BB}
\* executionTimeMs of a result: below the threshold and two values above it
ExecTimes == {400, 1500, 3000}

\* A 32-bit integer is kept as its two 16-bit halves [hi, lo] (two's complement).
\* One round of the loop of generateQueryId,
\*   hash = ((hash << 5) - hash) + char; hash = hash & hash,
\* leaves the 32-bit value of 31 * hash + char.
HashStep(h, char) ==
  LET low == 31 * h.lo + char
      high == 31 * h.hi + (low \div 65536)
  IN [hi |-> high % 65536, lo |-> low % 65536]

RECURSIVE HashFrom(_, _)
HashFrom(hash, chars) ==
  IF chars = <<>> THEN hash ELSE HashFrom(HashStep(hash, chars[1]), Tail(chars))

\* Math.abs of the signed value of the halves: a value in 0 .. 2^31
abs32(h) ==
  IF h.hi < 32768 THEN h
  ELSE IF h.lo = 0 THEN [hi |-> 65536 - h.hi, lo |-> 0]
  ELSE [hi |-> 65535 - h.hi, lo |-> 65536 - h.lo]

\* Number.prototype.toString(16), as character codes
HexDigit(d) == IF d < 10 THEN 48 + d ELSE 87 + d
RECURSIVE toString16(_)
toString16(n) ==
  IF n < 16 THEN <<HexDigit(n)>> ELSE Append(toString16(n \div 16), HexDigit(n % 16))
Hex4(n) ==
  <<HexDigit(n \div 4096), HexDigit((n \div 256) % 16), HexDigit((n \div 16) % 16),
    HexDigit(n % 16)>>
toString16Halves(h) == IF h.hi = 0 THEN toString16(h.lo) ELSE toString16(h.hi) \o Hex4(h.lo)

generateQueryId(sql) == toString16Halves(abs32(HashFrom([hi |-> 0, lo |-> 0], sql)))

\* the entry track() builds; error = "" stands for an omitted error.  The fields
\* derived from the text alone (tables, queryComplexity, performanceScore) are
\* not carried.
HistoryEntry(ms, sql, executionTimeMs, rowCount, error) ==
  [timestamp |-> Date(ms), sql |-> sql, executionTimeMs |-> executionTimeMs,
   rowCount |-> rowCount, error |-> error]

\* a variant of track() that pushes and never shifts
pushUnbounded(dbHistory, entry) == Append(dbHistory, entry)

\* dbHistory.push(entry); if (dbHistory.length > maxHistoryPerDb) dbHistory.shift()
pushBounded(dbHistory, entry) ==
  LET pushed == Append(dbHistory, entry) IN
  IF Len(pushed) > maxHistoryPerDb THEN Tail(pushed) ELSE pushed

\* the index of the first alert with this id (Array.prototype.find), 0 if none
FindAlert(alerts, queryId) ==
  LET hits == {i \in DOMAIN alerts : alerts[i].queryId = queryId} IN
  IF hits = {} THEN 0 ELSE CHOOSE i \in hits : \A j \in hits : i <= j

\* a variant of the loop body that records the time of the latest slow
\* occurrence instead of the longest one
detectOneLatest(alerts, entry, dbId) ==
  IF entry.executionTimeMs > slowQueryThresholdMs
  THEN LET queryId == generateQueryId(entry.sql)
           i == FindAlert(alerts, queryId)
       IN IF i # 0
          THEN [alerts EXCEPT ![i] =
                  [@ EXCEPT !.frequency = @ + 1,
                            !.timestamp = entry.timestamp,
                            !.executionTimeMs = entry.executionTimeMs]]
          ELSE Append(alerts,
                 [dbId |-> dbId, queryId |-> queryId, sql |-> entry.sql,
                  executionTimeMs |-> entry.executionTimeMs,
                  thresholdMs |-> slowQueryThresholdMs,
                  timestamp |-> entry.timestamp, frequency |-> 1,
                  recommendations |-> <<>>])
  ELSE alerts

\* the body of the for loop of detectSlowQueries for one entry
detectOne(alerts, entry, dbId) ==
  IF entry.executionTimeMs > slowQueryThresholdMs
  THEN LET queryId == generateQueryId(entry.sql)
           i == FindAlert(alerts, queryId)
       IN IF i # 0
          THEN [alerts EXCEPT ![i] =
                  [@ EXCEPT !.frequency = @ + 1,
                            !.timestamp = entry.timestamp,
                            !.executionTimeMs =
                               IF entry.executionTimeMs > @ THEN entry.executionTimeMs ELSE @]]
          ELSE Append(alerts,
                 [dbId |-> dbId, queryId |-> queryId, sql |-> entry.sql,
                  executionTimeMs |-> entry.executionTimeMs,
                  thresholdMs |-> slowQueryThresholdMs,
                  timestamp |-> entry.timestamp, frequency |-> 1,
                  recommendations |-> <<>>])
  ELSE alerts

\* the for loop over queryHistory[from..to], started from the alerts the map holds.
\* The range is split in two and the left half is evaluated (its length taken)
\* before the right half starts, which keeps the evaluation shallow.
RECURSIVE detectRange(_, _, _, _, _)
detectRange(alerts, queryHistory, dbId, from, to) ==
  IF from > to THEN alerts
  ELSE IF from = to THEN detectOne(alerts, queryHistory[from], dbId)
  ELSE LET left == detectRange(alerts, queryHistory, dbId, from, (from + to) \div 2) IN
       IF Len(left) >= 0
       THEN detectRange(left, queryHistory, dbId, ((from + to) \div 2) + 1, to)
       ELSE left

\* detectSlowQueries(queryHistory, dbId): the list the map holds afterwards
detectSlowQueries(alerts, queryHistory, dbId) ==
  detectRange(alerts, queryHistory, dbId, 1, Len(queryHistory))

IsSlow(entry) == entry.executionTimeMs > slowQueryThresholdMs

\* track(dbId, sql, executionTimeMs, rowCount, error)
Track(dbId, sql, executionTimeMs, rowCount, error) ==
  /\ calls < MaxTracks
  /\ calls' = calls + 1
  /\ LET entry == HistoryEntry(now, sql, executionTimeMs, rowCount, error) IN
     /\ history' = [history EXCEPT ![dbId] = pushBounded(@, entry)]
     /\ tracked' = [tracked EXCEPT ![dbId] = Append(@, entry)]
  /\ now' = now + 1
  /\ UNCHANGED <<config, input, output, cacheVars, introspectionLocks, taskVars, ticks, log,
                 slowQueryAlerts, seenSlow, alertCalls, alertsAsOf>>

\* runQuery tracks a result of the adapter
TrackResult(dbId, sql, executionTimeMs) == Track(dbId, sql, executionTimeMs, 1, "")

\* runQuery tracks an error of the adapter
TrackError(dbId, sql) == Track(dbId, sql, 0, 0, "query failed")

\* getSlowQueryAlerts(dbId): detectSlowQueries over a copy of the history
GetSlowQueryAlerts(dbId) ==
  /\ alertCalls < MaxAlertCalls
  /\ alertCalls' = alertCalls + 1
  /\ slowQueryAlerts' =
       [slowQueryAlerts EXCEPT ![dbId] = detectSlowQueries(@, history[dbId], dbId)]
  /\ seenSlow' = [seenSlow EXCEPT ![dbId] =
                    @ \cup {history[dbId][i] : i \in {j \in DOMAIN history[dbId] :
                                                       IsSlow(history[dbId][j])}}]
  /\ alertsAsOf' = [alertsAsOf EXCEPT ![dbId] = Len(tracked[dbId])]
  /\ UNCHANGED <<now, config, input, output, cacheVars, introspectionLocks, taskVars, calls, ticks, log,
                 history, tracked>>

(***************************************************************************)
(* Specifications                                                          *)
(***************************************************************************)
\* the configurations: cache.ttlMinutes is 1, introspection.maxTables varies
Configs ==
  {[cacheTtlMinutes |-> 1, maxTables |-> [d \in DbIds |-> m]] : m \in MaxTablesChoices}

\* the cache directory a new process finds: empty, or holding the record a
\* previous process stored with the same configuration
InitialDisks ==
  {[d \in DbIds |-> NoFile],
   [d \in DbIds |-> JsonFile(stringify(NewEntry(SchemaV1(d, now), config.maxTables[d])))]}

\* no utility function is applied outside SpecUtils and SpecIndex
InitNoUtils ==
  /\ input = Absent
  /\ output = Absent

InitTasks ==
  /\ pc = [t \in Tasks |-> "idle"]
  /\ call = [t \in Tasks |-> NoCall]
  /\ awaiting = [t \in Tasks |-> 0]
  /\ outcome = [t \in Tasks |-> NoOutcome]
  /\ result = [t \in Tasks |-> NoResult]

InitNoTracker ==
  /\ history = [d \in DbIds |-> <<>>]
  /\ slowQueryAlerts = [d \in DbIds |-> <<>>]
  /\ tracked = [d \in DbIds |-> <<>>]
  /\ seenSlow = [d \in DbIds |-> {}]
  /\ alertCalls = 0
  /\ alertsAsOf = [d \in DbIds |-> 0]

\* a DatabaseManager right after construction and init()
Init ==
  /\ now = 0
  /\ config \in Configs
  /\ cache = [d \in DbIds |-> Absent]
  /\ disk \in InitialDisks
  /\ writes = {}
  /\ introspectionLocks = [d \in DbIds |-> 0]
  /\ InitTasks
  /\ calls = 0
  /\ ticks = 0
  /\ log = LogInit
  /\ InitNoTracker
  /\ InitNoUtils

Next ==
  \/ \E t \in Tasks, d \in DbIds, f \in BOOLEAN : IntrospectCall(t, d, f)
  \/ \E t \in Tasks : CheckDone(t)
  \/ \E t \in Tasks : LockWake(t)
  \/ \E t \in Tasks : LockedStep(t)
  \/ \E t \in Tasks : RecheckDone(t)
  \/ \E t \in Tasks, w \in SchemaMakers : AdapterResolve(t, w)
  \/ \E t \in Tasks, e \in AdapterErrors : AdapterReject(t, e)
  \/ \E w \in writes : WriteOpen(w)
  \/ \E w \in writes : WriteData(w)
  \/ \E w \in writes : WriteError(w)
  \/ Tick

Spec == Init /\ [][Next]_vars

\* a SchemaCache used directly through get, set and clear
NextCache ==
  \/ \E t \in Tasks, d \in DbIds, w \in SchemaMakers, ttl \in {0} \cup TtlChoices :
       CacheSet(t, d, w, ttl)
  \/ \E t \in Tasks, d \in DbIds : CacheGet(t, d)
  \/ \E t \in Tasks : CacheGetDone(t)
  \/ \E t \in Tasks : CacheGetReadError(t)
  \/ \E t \in Tasks, d \in DbIds : CacheClear(t, d)
  \/ \E t \in Tasks : CacheClearDone(t)
  \/ \E w \in writes : WriteOpen(w)
  \/ \E w \in writes : WriteData(w)
  \/ \E w \in writes : WriteError(w)
  \/ Tick

SpecCache == Init /\ [][NextCache]_vars

\* the history 99 successful fast queries leave
RECURSIVE Replay(_)
Replay(n) ==
  IF n = 0 THEN <<>>
  ELSE pushBounded(Replay(n - 1), HistoryEntry(n - 1, q_select, 400, 1, ""))

InitialHistories == {<<>>, Replay(maxHistoryPerDb - 1)}

InitTracker ==
  /\ config \in {c \in Configs : c.cacheTtlMinutes = 1 /\ c.maxTables = [d \in DbIds |-> 0]}
  /\ cache = [d \in DbIds |-> Absent]
  /\ disk = [d \in DbIds |-> NoFile]
  /\ writes = {}
  /\ introspectionLocks = [d \in DbIds |-> 0]
  /\ InitTasks
  /\ calls = 0
  /\ ticks = 0
  /\ log = LogInit
  /\ history \in [DbIds -> InitialHistories]
  /\ tracked = history
  /\ now = Len(history["db1"])
  /\ slowQueryAlerts = [d \in DbIds |-> <<>>]
  /\ seenSlow = [d \in DbIds |-> {}]
  /\ alertCalls = 0
  /\ alertsAsOf = [d \in DbIds |-> Len(tracked[d])]
  /\ InitNoUtils

NextTracker ==
  \/ \E d \in DbIds, q \in SqlTexts, ms \in ExecTimes : TrackResult(d, q, ms)
  \/ \E d \in DbIds : TrackError(d, q_select)
  \/ \E d \in DbIds : GetSlowQueryAlerts(d)

SpecTracker == InitTracker /\ [][NextTracker]_vars

(***************************************************************************)
(* Properties of the introspection lock and of introspectSchema            *)
(***************************************************************************)
\* C1: for every database at most one task holds the introspection lock, that
\* is, has been given a release function it has not called yet; so at most one
\* introspection per database is in flight.
C1_AtMostOneHolder ==
  \A d \in DbIds : Cardinality(Holders(d)) <= 1

\* no call asked for a forced refresh, no introspection failed and no entry
\* stored so far has expired
QuietRace ==
  /\ ~log.force /\ ~log.failures
  /\ \A e \in log.stored : ~isExpired(e)

\* C2: when introspectSchema(dbId, false) calls race on a miss (none forced,
\* none failing, nothing stored expiring), the adapter introspects once: every
\* caller that had to wait for the lock returns the entry the first one stored.
C2_RacingMissIntrospectsOnce ==
  QuietRace =>
    /\ log.introspections <= 1
    /\ Cardinality(log.stored) <= 1
    /\ \A t \in Tasks :
         (result[t].kind = "entry" /\ result[t].call.waited) =>
           result[t].entry \in log.stored

\* C2 happens: three calls raced on a miss, two of them waited for the lock,
\* one introspection ran and all three returned its entry
C2_ThreeRacersOneIntrospection ==
  /\ QuietRace /\ log.introspections = 1
  /\ \E t \in Tasks :
       /\ result[t].kind = "entry" /\ ~result[t].call.waited
       /\ \A u \in Tasks \ {t} :
            /\ pc[u] = "idle" /\ result[u].kind = "entry" /\ result[u].call.waited
            /\ result[u].entry = result[t].entry

\* C3: when connecting or introspecting fails inside the locked section, the
\* caller gets the error the adapter threw and the lock is released: the map
\* does not hold the promise of the failed task and no task awaits it.
C3_FailureReleasesLock ==
  \A t \in Tasks :
    (pc[t] = "idle" /\ result[t].kind = "error") =>
      /\ outcome[t].settled /\ ~outcome[t].ok
      /\ result[t].error = outcome[t].error
      /\ \A d \in DbIds : introspectionLocks[d] # t
      /\ \A u \in Tasks : awaiting[u] # t

\* C3 happens: of two calls one has failed, and the other, which asked for the
\* lock afterwards, got it without waiting
C3_NextCallerAcquires ==
  /\ calls = 2
  /\ \E t, u \in Tasks :
       /\ pc[t] = "idle" /\ result[t].kind = "error"
       /\ pc[u] \in LockedSection /\ ~call[u].waited
       /\ introspectionLocks[call[u].dbId] = u

\* the step in which the introspection of task t fails
FailureStep(t) == pc[t] = "introspecting" /\ pc'[t] = "idle" /\ result'[t].kind = "error"

\* C4: a failed introspection, forced or not, leaves the memory entry and the
\* durable record as they were: get(dbId) returns after the failure what it
\* returned before it.
C4_FailureLeavesCacheUntouched ==
  [][\A t \in Tasks :
       FailureStep(t) =>
         /\ cache' = cache /\ disk' = disk /\ writes' = writes
         /\ \A d \in DbIds : GetNow(d)' = GetNow(d)]_vars

\* C4 happens: a forced refresh has just failed while the memory layer and the
\* durable record hold an entry that is within its TTL
C4_EntrySurvivesFailedRefresh ==
  \E t \in Tasks, d \in DbIds :
    /\ pc[t] = "idle" /\ result[t].kind = "error" /\ result[t].at = now
    /\ result[t].call.forceRefresh /\ result[t].call.dbId = d
    /\ MemoryHit(d) /\ GetFromDisk(disk[d]) = cache[d]

(***************************************************************************)
(* Properties of SchemaCache                                               *)
(***************************************************************************)
\* the step in which a get(dbId) of task t returns
GetReturns(t) == result'[t] # result[t] /\ result'[t].call.op = "get"

\* the instant from which an entry is expired
ExpiresAfter(entry) == getTime(entry.cachedAt) + entry.ttlMinutes * 60 * 1000

\* C5: get(dbId) never returns an entry whose age exceeds ttlMinutes*60000 ms,
\* wherever the entry sits; get leaves the durable file as it is and puts no
\* expired entry into the memory layer.
C5_ExpiredEntryIsAbsent ==
  [][\A t \in Tasks :
       GetReturns(t) =>
         /\ result'[t].kind = "entry" => ~isExpired(result'[t].entry)
         /\ disk' = disk
         /\ \A d \in DbIds : cache'[d] # cache[d] => ~isExpired(cache'[d])]_vars

\* C5 happens: a get returned absent at a time when the entry in memory and the
\* one in the durable file were both expired, and both are still there
C5_ExpiredInBothLayers ==
  \E t \in Tasks, d \in DbIds :
    /\ result[t].kind = "null" /\ result[t].call.op = "get" /\ result[t].call.dbId = d
    /\ cache[d] # Absent /\ result[t].at > ExpiresAfter(cache[d])
    /\ disk[d].kind = "json" /\ result[t].at > ExpiresAfter(loadFromDisk(disk[d]).entry)

\* C6: after clear(dbId) has returned and until the next set(dbId, ...),
\* get(dbId) returns absent, however clear interleaves with the background
\* write a preceding set started.
C6_ClearedStaysAbsent ==
  \A d \in DbIds : log.cleared[d] => GetNow(d) = Absent

\* C7: after set(dbId, schema, ttl), with no set or clear since and before the
\* TTL elapses, get(dbId) returns an entry with the schema passed to set and the
\* relationships built from it.
C7_GetReturnsWhatWasSet ==
  \A d \in DbIds :
    (log.lastSet[d] # Absent /\ ~isExpired(log.lastSet[d])) =>
      /\ GetNow(d) # Absent
      /\ GetNow(d).schema = log.lastSet[d].schema
      /\ GetNow(d).relationships = buildRelationships(log.lastSet[d].schema)

(***************************************************************************)
(* Properties of the query history and of the slow-query alerts            *)
(***************************************************************************)
\* the last k elements of a sequence
LastOf(seq, k) == SubSeq(seq, Len(seq) - k + 1, Len(seq))
Min(a, b) == IF a < b THEN a ELSE b

\* C8: after any sequence of track calls the history of a database holds at
\* most maxHistoryPerDb (100) entries, and they are the most recent
\* min(n, 100) of the n entries tracked, in insertion order.
C8_HistoryKeepsLast100 ==
  \A d \in DbIds :
    /\ Len(history[d]) <= maxHistoryPerDb
    /\ history[d] = LastOf(tracked[d], Min(Len(tracked[d]), maxHistoryPerDb))

\* C8 happens: 101 entries were tracked, the history holds 100 of them and the
\* earliest one is gone
C8_EarliestEvicted ==
  \E d \in DbIds :
    /\ Len(tracked[d]) = maxHistoryPerDb + 1
    /\ Len(history[d]) = maxHistoryPerDb
    /\ \A i \in DOMAIN history[d] : history[d][i] # tracked[d][1]
    /\ history[d][1] = tracked[d][2]

\* the slow entries detectSlowQueries has visited for the query id of an alert
SeenFor(d, queryId) == {e \in seenSlow[d] : generateQueryId(e.sql) = queryId}

\* C9: the alert list of a database never holds two alerts with the same query
\* id, and the execution time an alert records is the maximum over the slow
\* occurrences of its query seen so far.
C9_OneAlertPerQueryWithMaxTime ==
  \A d \in DbIds :
    LET alerts == slowQueryAlerts[d] IN
    /\ \A i, j \in DOMAIN alerts : alerts[i].queryId = alerts[j].queryId => i = j
    /\ \A i \in DOMAIN alerts :
         /\ \E e \in SeenFor(d, alerts[i].queryId) :
              e.executionTimeMs = alerts[i].executionTimeMs
         /\ \A e \in SeenFor(d, alerts[i].queryId) :
              e.executionTimeMs <= alerts[i].executionTimeMs
    /\ \A e \in seenSlow[d] : FindAlert(alerts, generateQueryId(e.sql)) # 0

\* C9 happens: one alert stands for two slow occurrences of a query, the longer
\* one tracked first, and keeps the longer time
C9_RepeatedSlowQuery ==
  \E d \in DbIds :
    \E i \in DOMAIN slowQueryAlerts[d] :
      \E e1, e2 \in SeenFor(d, slowQueryAlerts[d][i].queryId) :
        /\ getTime(e1.timestamp) < getTime(e2.timestamp)
        /\ e1.executionTimeMs > e2.executionTimeMs
        /\ slowQueryAlerts[d][i].executionTimeMs = e1.executionTimeMs
        /\ Len(slowQueryAlerts[d]) = 1

\* the tracked executions of a query that exceeded the threshold
SlowExecutions(d, queryId) ==
  {i \in DOMAIN tracked[d] :
     IsSlow(tracked[d][i]) /\ generateQueryId(tracked[d][i].sql) = queryId}

\* C10: once getSlowQueryAlerts has run over everything tracked so far, the
\* frequency of every alert is the number of tracked executions of its query
\* that exceeded the threshold, and stays so when the alerts are requested again.
C10_FrequencyIsSlowExecutionCount ==
  \A d \in DbIds :
    alertsAsOf[d] = Len(tracked[d]) =>
      \A i \in DOMAIN slowQueryAlerts[d] :
        slowQueryAlerts[d][i].frequency =
          Cardinality(SlowExecutions(d, slowQueryAlerts[d][i].queryId))

(***************************************************************************)
(* Schemas the utility functions are applied to                            *)
(***************************************************************************)
\* "users"
s_users == <<117, 115, 101, 114, 115>>
\* "User"
s_User == <<85, 115, 101, 114>>
\* "sales"
s_sales == <<115, 97, 108, 101, 115>>
\* "parent_id"
s_parent_id == <<112, 97, 114, 101, 110, 116, 95, 105, 100>>
\* "fk_parent"
s_fk_parent == <<102, 107, 95, 112, 97, 114, 101, 110, 116>>

\* the names the referenced table may carry in the database
RefNames == {s_user, s_users, s_User}
\* the number of foreign keys orders declares
FkCounts == {0, 1, 2}
\* "one": both tables in schema public; "two": orders in schema sales
Layouts == {"one", "two"}

\* <refName>(id PK)
RefTable(refName) == [UserTable EXCEPT !.name = refName]

\* the declared foreign key orders.user_id -> <refName>.id
FkUser(refName) ==
  [name |-> s_fk_user, columns |-> <<s_user_id>>, referencedSchema |-> s_public,
   referencedTable |-> refName, referencedColumns |-> <<s_id>>]

\* the declared foreign key orders.parent_id -> orders.id
FkParent(ordersSchema) ==
  [name |-> s_fk_parent, columns |-> <<s_parent_id>>, referencedSchema |-> ordersSchema,
   referencedTable |-> s_orders, referencedColumns |-> <<s_id>>]

\* orders(id PK, user_id [, parent_id]) with 0, 1 or 2 declared foreign keys
OrdersFor(refName, fkCount, ordersSchema) ==
  [schema |-> ordersSchema, name |-> s_orders, type |-> "table",
   columns |-> IF fkCount = 2
               THEN <<Column(s_id), Column(s_user_id), Column(s_parent_id)>>
               ELSE <<Column(s_id), Column(s_user_id)>>,
   primaryKey |-> PrimaryKey(<<s_id>>),
   indexes |-> <<>>,
   foreignKeys |-> IF fkCount = 0 THEN <<>>
                   ELSE IF fkCount = 1 THEN <<FkUser(refName)>>
                   ELSE <<FkUser(refName), FkParent(ordersSchema)>>]

\* a DatabaseSchema as an adapter assembles it, before its version is computed
UtilSchema(refName, fkCount, layout) ==
  [dbId |-> "db1", dbType |-> "postgres",
   schemas |-> IF layout = "one"
               THEN <<[name |-> s_public,
                       tables |-> <<RefTable(refName), OrdersFor(refName, fkCount, s_public)>>]>>
               ELSE <<[name |-> s_public, tables |-> <<RefTable(refName)>>],
                      [name |-> s_sales,
                       tables |-> <<OrdersFor(refName, fkCount, s_sales)>>]>>,
   introspectedAt |-> Date(0), version |-> ""]

UtilSchemas ==
  {UtilSchema(r, k, l) : r \in RefNames, k \in FkCounts, l \in Layouts}

\* what a utility function returned: its name, its arguments other than the
\* schema, and its value
Applied(fn, args, value) == [fn |-> fn, args |-> args, value |-> value]

\* SchemaCache.set computes the relationships of the schema it stores
BuildRelationships ==
  /\ input # Absent
  /\ output' = Applied("buildRelationships", <<>>, buildRelationships(input.schema))
  /\ UNCHANGED <<now, config, input, cacheVars, introspectionLocks, taskVars, calls, ticks,
                 log, trackerVars>>

(***************************************************************************)
(* utils.findJoinPaths and DatabaseManager.suggestJoins                    *)
(***************************************************************************)
\* the default value of the parameter maxDepth
maxDepthDefault == 3

\* `${schema}.${table}`.toLowerCase()
GraphKey(schema, table) == toLowerCase(schema \o s_dot \o table)

\* { ...rel, from* : rel.to*, to* : rel.from* }
reverseRel(rel) ==
  [rel EXCEPT !.fromSchema = rel.toSchema, !.fromTable = rel.toTable,
              !.fromColumns = rel.toColumns, !.toSchema = rel.fromSchema,
              !.toTable = rel.fromTable, !.toColumns = rel.fromColumns]

\* a variant of the adjacency list without the reverse direction: only the
\* relationships that start at the key
RECURSIVE graphGetForward(_, _)
graphGetForward(relationships, key) ==
  IF relationships = <<>> THEN <<>>
  ELSE LET rel == relationships[1] IN
       (IF GraphKey(rel.fromSchema, rel.fromTable) = key THEN <<rel>> ELSE <<>>)
       \o graphGetForward(Tail(relationships), key)

\* graph.get(key) || [] once the adjacency list is built: the relationships
\* pushed under that key, in the order of the pushes
RECURSIVE graphGet(_, _)
graphGet(relationships, key) ==
  IF relationships = <<>> THEN <<>>
  ELSE LET rel == relationships[1] IN
       (IF GraphKey(rel.fromSchema, rel.fromTable) = key THEN <<rel>> ELSE <<>>)
       \o (IF GraphKey(rel.toSchema, rel.toTable) = key THEN <<reverseRel(rel)>> ELSE <<>>)
       \o graphGet(Tail(relationships), key)

\* path.map((r) => `${r.toSchema}.${r.toTable}`)
PathTables(path) == [i \in DOMAIN path |-> path[i].toSchema \o s_dot \o path[i].toTable]

\* the for loop over the neighbors of one dequeued node; st holds queue,
\* visited and paths
RECURSIVE VisitNeighbors(_, _, _, _, _)
VisitNeighbors(st, neighbors, path, start, end) ==
  IF neighbors = <<>> THEN st
  ELSE LET rel == neighbors[1]
           next == GraphKey(rel.toSchema, rel.toTable)
       IN IF next = end
          THEN VisitNeighbors(
                 [st EXCEPT !.paths =
                    Append(@, [tables |-> <<start>> \o PathTables(path) \o <<end>>,
                               joins |-> Append(path, rel)])],
                 Tail(neighbors), path, start, end)
          ELSE IF next \notin st.visited
          THEN VisitNeighbors(
                 [st EXCEPT !.visited = @ \cup {next},
                            !.queue = Append(@, [current |-> next, path |-> Append(path, rel)])],
                 Tail(neighbors), path, start, end)
          ELSE VisitNeighbors(st, Tail(neighbors), path, start, end)

\* a variant of the while loop that stops a path at `path.length > maxDepth`
RECURSIVE SearchLoopDeeper(_, _, _, _, _)
SearchLoopDeeper(st, relationships, start, end, maxDepth) ==
  IF st.queue = <<>> THEN st.paths
  ELSE LET head == st.queue[1]
           shifted == [st EXCEPT !.queue = Tail(@)]
       IN IF Len(head.path) > maxDepth
          THEN SearchLoopDeeper(shifted, relationships, start, end, maxDepth)
          ELSE SearchLoopDeeper(
                 VisitNeighbors(shifted, graphGet(relationships, head.current),
                                head.path, start, end),
                 relationships, start, end, maxDepth)

\* the while loop of the breadth-first search
RECURSIVE SearchLoop(_, _, _, _, _)
SearchLoop(st, relationships, start, end, maxDepth) ==
  IF st.queue = <<>> THEN st.paths
  ELSE LET head == st.queue[1]
           shifted == [st EXCEPT !.queue = Tail(@)]
       IN IF Len(head.path) >= maxDepth
          THEN SearchLoop(shifted, relationships, start, end, maxDepth)
          ELSE SearchLoop(
                 VisitNeighbors(shifted, graphGet(relationships, head.current),
                                head.path, start, end),
                 relationships, start, end, maxDepth)

findJoinPaths(tables, relationships, maxDepth) ==
  IF Len(tables) < 2 THEN <<>>
  ELSE LET start == toLowerCase(tables[1])
           end == toLowerCase(tables[2])
       IN SearchLoop([queue |-> <<[current |-> start, path |-> <<>>]>>,
                      visited |-> {start}, paths |-> <<>>],
                     relationships, start, end, maxDepth)

\* the table names a client may pass for the referenced table and for orders
\* of a schema: as they are listed, or qualified by their schema
NamesOf(schema) ==
  LET tabs == TablesOf(schema.schemas) IN
  {tabs[i].table.name : i \in DOMAIN tabs}
  \cup {tabs[i].schemaName \o s_dot \o tabs[i].table.name : i \in DOMAIN tabs}

\* suggestJoins(dbId, tables) over the cache entry of the schema: the entry's
\* relationships are those SchemaCache.set built
SuggestJoins(tables) ==
  /\ input # Absent
  /\ output' = Applied("findJoinPaths", tables,
                       findJoinPaths(tables, buildRelationships(input.schema),
                                     maxDepthDefault))
  /\ UNCHANGED <<now, config, input, cacheVars, introspectionLocks, taskVars, calls, ticks,
                 log, trackerVars>>

(***************************************************************************)
(* utils.generateSchemaVersion                                             *)
(*                                                                         *)
(* Names range over letters, digits and "_".  The foreign keys carry no    *)
(* onUpdate / onDelete (both are optional).  The SHA-256 digest is the     *)
(* record [sha256 |-> text]: two digests are equal exactly when the hashed *)
(* texts are equal.                                                        *)
(***************************************************************************)
\* the primary collation weight of a character: "_" before digits before
\* letters, letters without regard to case
PrimaryWeight(c) ==
  IF c = 95 THEN 0
  ELSE IF c \in 48..57 THEN c - 47
  ELSE IF c \in 65..90 THEN c - 54
  ELSE IF c \in 97..122 THEN c - 86
  ELSE 100 + c

\* the sign of a lexicographic comparison of two sequences of numbers
RECURSIVE CompareSeq(_, _)
CompareSeq(a, b) ==
  IF a = <<>> /\ b = <<>> THEN 0
  ELSE IF a = <<>> THEN -1
  ELSE IF b = <<>> THEN 1
  ELSE IF a[1] < b[1] THEN -1
  ELSE IF a[1] > b[1] THEN 1
  ELSE CompareSeq(Tail(a), Tail(b))

\* a.localeCompare(b): primary weights first; on a tie lower case before
\* upper case at the first difference
localeCompare(a, b) ==
  LET primary == CompareSeq([i \in DOMAIN a |-> PrimaryWeight(a[i])],
                            [i \in DOMAIN b |-> PrimaryWeight(b[i])])
  IN IF primary # 0 THEN primary
     ELSE CompareSeq([i \in DOMAIN a |-> IF a[i] \in 65..90 THEN 1 ELSE 0],
                     [i \in DOMAIN b |-> IF b[i] \in 65..90 THEN 1 ELSE 0])

\* arr.sort((a, b) => a.name.localeCompare(b.name)): a stable sort
RECURSIVE sortByName(_)
sortByName(arr) ==
  IF arr = <<>> THEN <<>>
  ELSE LET sorted == sortByName(SubSeq(arr, 1, Len(arr) - 1))
           x == arr[Len(arr)]
           k == Cardinality({i \in DOMAIN sorted : localeCompare(sorted[i].name, x.name) <= 0})
       IN SubSeq(sorted, 1, k) \o <<x>> \o SubSeq(sorted, k + 1, Len(sorted))

\* the object schemaData; the schemas are mapped in the order they come in
schemaData(schema) ==
  [dbType |-> schema.dbType,
   schemas |->
     [i \in DOMAIN schema.schemas |->
        [name |-> schema.schemas[i].name,
         tables |->
           LET tables == sortByName(schema.schemas[i].tables) IN
           [j \in DOMAIN tables |->
              [name |-> tables[j].name,
               type |-> tables[j].type,
               columns |->
                 LET columns == sortByName(tables[j].columns) IN
                 [k \in DOMAIN columns |->
                    [name |-> columns[k].name, dataType |-> columns[k].dataType,
                     nullable |-> columns[k].nullable]],
               foreignKeys |-> sortByName(tables[j].foreignKeys)]]]]]

\* the characters of the enumerated values of dbType, type and dataType
Chars(v) ==
  CASE v = "sqlite" -> <<115, 113, 108, 105, 116, 101>>
    [] v = "postgres" -> <<112, 111, 115, 116, 103, 114, 101, 115>>
    [] v = "table" -> <<116, 97, 98, 108, 101>>
    [] v = "view" -> <<118, 105, 101, 119>>
    [] v = "integer" -> <<105, 110, 116, 101, 103, 101, 114>>

\* a JSON string literal; the names need no escaping
quote(s) == <<34>> \o s \o <<34>>

\* JSON.stringify of an array whose elements are already stringified
jsonArray(items) == <<91>> \o join(items, s_comma) \o <<93>>

\* JSON.stringify of an object: its members in insertion order
jsonObject(members) ==
  <<123>> \o join([i \in DOMAIN members |-> quote(members[i][1]) \o <<58>> \o members[i][2]],
                 s_comma) \o <<125>>

\* the property names of schemaData
Key(k) ==
  CASE k = "dbType" -> <<100, 98, 84, 121, 112, 101>>
    [] k = "schemas" -> <<115, 99, 104, 101, 109, 97, 115>>
    [] k = "name" -> <<110, 97, 109, 101>>
    [] k = "tables" -> <<116, 97, 98, 108, 101, 115>>
    [] k = "type" -> <<116, 121, 112, 101>>
    [] k = "columns" -> <<99, 111, 108, 117, 109, 110, 115>>
    [] k = "foreignKeys" -> <<102, 111, 114, 101, 105, 103, 110, 75, 101, 121, 115>>
    [] k = "dataType" -> <<100, 97, 116, 97, 84, 121, 112, 101>>
    [] k = "nullable" -> <<110, 117, 108, 108, 97, 98, 108, 101>>
    [] k = "referencedSchema" -> <<114, 101, 102, 101, 114, 101, 110, 99, 101, 100, 83, 99, 104, 101, 109, 97>>
    [] k = "referencedTable" -> <<114, 101, 102, 101, 114, 101, 110, 99, 101, 100, 84, 97, 98, 108, 101>>
    [] k = "referencedColumns" -> <<114, 101, 102, 101, 114, 101, 110, 99, 101, 100, 67, 111, 108, 117, 109, 110, 115>>

\* true / false
jsonBoolean(b) == IF b THEN <<116, 114, 117, 101>> ELSE <<102, 97, 108, 115, 101>>

jsonStrings(arr) == jsonArray([i \in DOMAIN arr |-> quote(arr[i])])

jsonColumn(c) ==
  jsonObject(<<<<Key("name"), quote(c.name)>>,
               <<Key("dataType"), quote(Chars(c.dataType))>>,
               <<Key("nullable"), jsonBoolean(c.nullable)>>>>)

jsonForeignKey(fk) ==
  jsonObject(<<<<Key("name"), quote(fk.name)>>,
               <<Key("columns"), jsonStrings(fk.columns)>>,
               <<Key("referencedSchema"), quote(fk.referencedSchema)>>,
               <<Key("referencedTable"), quote(fk.referencedTable)>>,
               <<Key("referencedColumns"), jsonStrings(fk.referencedColumns)>>>>)

jsonTable(t) ==
  jsonObject(<<<<Key("name"), quote(t.name)>>,
               <<Key("type"), quote(Chars(t.type))>>,
               <<Key("columns"), jsonArray([i \in DOMAIN t.columns |-> jsonColumn(t.columns[i])])>>,
               <<Key("foreignKeys"),
                 jsonArray([i \in DOMAIN t.foreignKeys |-> jsonForeignKey(t.foreignKeys[i])])>>>>)

jsonSchema(s) ==
  jsonObject(<<<<Key("name"), quote(s.name)>>,
               <<Key("tables"), jsonArray([i \in DOMAIN s.tables |-> jsonTable(s.tables[i])])>>>>)

\* JSON.stringify(schemaData)
stringifySchemaData(data) ==
  jsonObject(<<<<Key("dbType"), quote(Chars(data.dbType))>>,
               <<Key("schemas"),
                 jsonArray([i \in DOMAIN data.schemas |-> jsonSchema(data.schemas[i])])>>>>)

\* hash.update(text); hash.digest('hex').substring(0, 16)
sha256Prefix(text) == [sha256 |-> text]

generateSchemaVersion(schema) == sha256Prefix(stringifySchemaData(schemaData(schema)))

\* the schema as generateSchemaVersion leaves it: sort() sorts in place the
\* tables of every schema, and the columns and foreign keys of every table
sortedInPlace(schema) ==
  [schema EXCEPT !.schemas =
     [i \in DOMAIN schema.schemas |->
        [schema.schemas[i] EXCEPT !.tables =
           LET tables == sortByName(schema.schemas[i].tables) IN
           [j \in DOMAIN tables |->
              [tables[j] EXCEPT !.columns = sortByName(@),
                                !.foreignKeys = sortByName(@)]]]]]

\* dbSchema.version = generateSchemaVersion(dbSchema), as every adapter does
\* at the end of introspect()
GenerateSchemaVersion ==
  /\ input # Absent
  /\ LET version == generateSchemaVersion(input.schema) IN
     /\ input' = [input EXCEPT !.schema = [sortedInPlace(@) EXCEPT !.version = version],
                               !.versions = @ \cup {version}]
     /\ output' = Applied("generateSchemaVersion", <<>>, version)
  /\ UNCHANGED <<now, config, cacheVars, introspectionLocks, taskVars, calls, ticks,
                 log, trackerVars>>

(***************************************************************************)
(* The utility functions applied to a schema and to its reorderings        *)
(***************************************************************************)
\* arr with the elements at k and k + 1 exchanged
SwapAt(arr, k) == [arr EXCEPT ![k] = arr[k + 1], ![k + 1] = arr[k]]

\* a DatabaseSchema with the same content listed in another order; its version
\* is not computed yet
Rearranged(schemas) ==
  /\ input # Absent
  /\ input' = [input EXCEPT !.schema = [@ EXCEPT !.schemas = schemas, !.version = ""]]
  /\ UNCHANGED <<now, config, output, cacheVars, introspectionLocks, taskVars, calls, ticks,
                 log, trackerVars>>

ReorderSchemas(k) ==
  /\ input # Absent
  /\ k \in 1..(Len(input.schema.schemas) - 1)
  /\ Rearranged(SwapAt(input.schema.schemas, k))

ReorderTables(i, k) ==
  /\ input # Absent
  /\ i \in DOMAIN input.schema.schemas
  /\ k \in 1..(Len(input.schema.schemas[i].tables) - 1)
  /\ Rearranged([input.schema.schemas EXCEPT ![i].tables = SwapAt(@, k)])

ReorderColumns(i, j, k) ==
  /\ input # Absent
  /\ i \in DOMAIN input.schema.schemas
  /\ j \in DOMAIN input.schema.schemas[i].tables
  /\ k \in 1..(Len(input.schema.schemas[i].tables[j].columns) - 1)
  /\ Rearranged([input.schema.schemas EXCEPT ![i].tables[j].columns = SwapAt(@, k)])

ReorderForeignKeys(i, j, k) ==
  /\ input # Absent
  /\ i \in DOMAIN input.schema.schemas
  /\ j \in DOMAIN input.schema.schemas[i].tables
  /\ k \in 1..(Len(input.schema.schemas[i].tables[j].foreignKeys) - 1)
  /\ Rearranged([input.schema.schemas EXCEPT ![i].tables[j].foreignKeys = SwapAt(@, k)])

\* the argument lists of suggestJoins: one or two names of tables of the schema
JoinRequests(schema) ==
  {<<a>> : a \in NamesOf(schema)}
  \cup {<<a, b>> : a \in NamesOf(schema), b \in NamesOf(schema)}

\* a schema a database can hold; versions collects every version computed for
\* it or for a reordering of it
InitUtils ==
  /\ now = 0
  /\ config \in {c \in Configs : c.maxTables = [d \in DbIds |-> 0]}
  /\ cache = [d \in DbIds |-> Absent]
  /\ disk = [d \in DbIds |-> NoFile]
  /\ writes = {}
  /\ introspectionLocks = [d \in DbIds |-> 0]
  /\ InitTasks
  /\ calls = 0
  /\ ticks = 0
  /\ log = LogInit
  /\ InitNoTracker
  /\ input \in {[schema |-> s, versions |-> {}] : s \in UtilSchemas}
  /\ output = Absent

NextUtils ==
  \/ BuildRelationships
  \/ \E tables \in JoinRequests(input.schema) : SuggestJoins(tables)
  \/ GenerateSchemaVersion
  \/ \E k \in 1..1 : ReorderSchemas(k)
  \/ \E i \in 1..2, k \in 1..1 : ReorderTables(i, k)
  \/ \E i \in 1..2, j \in 1..2, k \in 1..2 : ReorderColumns(i, j, k)
  \/ \E i \in 1..2, j \in 1..2, k \in 1..1 : ReorderForeignKeys(i, j, k)

SpecUtils == InitUtils /\ [][NextUtils]_vars

(***************************************************************************)
(* Properties of the relationship list, the join paths and the version     *)
(***************************************************************************)
\* the tables of a schema, each with the schema that lists it
InputTables == TablesOf(input.schema.schemas)

\* the relationships of rels that lead from column list cols of table from to
\* column list refCols of the table named to (names compared without regard
\* to case, as the table lookup does)
Between(rels, from, cols, to, refCols) ==
  {i \in DOMAIN rels :
     /\ toLowerCase(rels[i].fromTable) = toLowerCase(from)
     /\ rels[i].fromColumns = cols
     /\ toLowerCase(rels[i].toTable) = toLowerCase(to)
     /\ rels[i].toColumns = refCols}

\* C11: when a table declares a foreign key and the naming heuristic infers a
\* relationship over the same source column and target table, the relationship
\* list holds exactly one relationship between the two tables for that column
\* pair, and it is of type foreign_key.
C11_DeclaredForeignKeyWins ==
  (output # Absent /\ output.fn = "buildRelationships") =>
    \A t \in DOMAIN InputTables :
      \A f \in DOMAIN InputTables[t].table.foreignKeys :
        LET table == InputTables[t].table
            fk == table.foreignKeys[f]
            inferred == inferRelationships(input.schema)
            same == Between(output.value, table.name, fk.columns,
                            fk.referencedTable, fk.referencedColumns)
        IN Between(inferred, table.name, fk.columns,
                   fk.referencedTable, fk.referencedColumns) # {}
           => /\ Cardinality(same) = 1
              /\ \A i \in same : output.value[i].type = "foreign_key"

\* the schema holds exactly the tables users and orders, and no foreign key
UsersAndOrdersNoFk ==
  /\ {InputTables[i].table.name : i \in DOMAIN InputTables} = {s_users, s_orders}
  /\ \A i \in DOMAIN InputTables : InputTables[i].table.foreignKeys = <<>>

\* C12: for users(id PK) and orders(id PK, user_id) without a declared foreign
\* key the relationship list is exactly one inferred relationship
\* orders.user_id -> users.id with confidence 0.7.
C12_UsersOrdersInferred ==
  (output # Absent /\ output.fn = "buildRelationships" /\ UsersAndOrdersNoFk) =>
    /\ Len(output.value) = 1
    /\ output.value[1].type = "inferred"
    /\ output.value[1].confidence = "0.7"
    /\ output.value[1].fromTable = s_orders
    /\ output.value[1].fromColumns = <<s_user_id>>
    /\ output.value[1].toTable = s_users
    /\ output.value[1].toColumns = <<s_id>>

\* the schema holds exactly the tables user and orders, and no foreign key
UserAndOrdersNoFk ==
  /\ {InputTables[i].table.name : i \in DOMAIN InputTables} = {s_user, s_orders}
  /\ \A i \in DOMAIN InputTables : InputTables[i].table.foreignKeys = <<>>

\* C12 (as the code has it): the candidate cut from the column name is looked
\* up as a table name as it stands, so for user(id PK) and orders(id PK,
\* user_id) without a declared foreign key the relationship list is exactly one
\* inferred relationship orders.user_id -> user.id with confidence 0.7, and for
\* a table named users nothing is inferred from the column user_id.
C12_UserOrdersInferred ==
  (output # Absent /\ output.fn = "buildRelationships") =>
    /\ UserAndOrdersNoFk =>
         /\ Len(output.value) = 1
         /\ output.value[1].type = "inferred"
         /\ output.value[1].confidence = "0.7"
         /\ output.value[1].fromTable = s_orders
         /\ output.value[1].fromColumns = <<s_user_id>>
         /\ output.value[1].toTable = s_user
         /\ output.value[1].toColumns = <<s_id>>
    /\ UsersAndOrdersNoFk => output.value = <<>>

\* buildRelationships was applied to user(id PK), orders(id PK, user_id) with
\* no declared foreign key and returned a relationship
C12_UserOrdersWitness ==
  /\ output # Absent
  /\ output.fn = "buildRelationships"
  /\ UserAndOrdersNoFk
  /\ output.value # <<>>

\* the names a table answers to: its name and its schema-qualified name
Answers(schema, table, name) ==
  toLowerCase(name) \in {toLowerCase(table), GraphKey(schema, table)}

\* a relationship of rels leads from the table named a to the table named b
Linked(rels, a, b) ==
  \E i \in DOMAIN rels :
    /\ Answers(rels[i].fromSchema, rels[i].fromTable, a)
    /\ Answers(rels[i].toSchema, rels[i].toTable, b)

\* C13: for two requested table names that a relationship of the cached schema
\* links directly (in either direction), findJoinPaths returns a path with
\* exactly one join that connects the two tables.
C13_DirectLinkGivesOneJoin ==
  (/\ output # Absent
   /\ output.fn = "findJoinPaths"
   /\ Len(output.args) = 2
   /\ LET rels == buildRelationships(input.schema) IN
      \/ Linked(rels, output.args[1], output.args[2])
      \/ Linked(rels, output.args[2], output.args[1]))
  => \E p \in DOMAIN output.value :
       LET path == output.value[p] IN
       /\ Len(path.joins) = 1
       /\ Answers(path.joins[1].fromSchema, path.joins[1].fromTable, output.args[1])
       /\ Answers(path.joins[1].toSchema, path.joins[1].toTable, output.args[2])

\* C14: generateSchemaVersion returns the same version for a schema and for
\* every reordering of its schemas, tables, columns and foreign keys.
C14_VersionIgnoresOrder ==
  input # Absent => Cardinality(input.versions) <= 1

\* C15: every entry introspectSchema stores carries the default TTL the cache
\* was constructed with; introspection.maxTables of the database has no
\* influence on it.
C15_StoredTtlIsDefaultTtl ==
  \A e \in log.stored : e.ttlMinutes = config.cacheTtlMinutes

(***************************************************************************)
(* utils.isWriteOperation and DatabaseManager.runQuery                     *)
(***************************************************************************)
\* "insert into users values (1)"
q_insert == <<105, 110, 115, 101, 114, 116, 32, 105, 110, 116, 111, 32, 117, 115, 101, 114,
              115, 32, 118, 97, 108, 117, 101, 115, 32, 40, 49, 41>>
\* "UPDATE users SET id = 2"
q_update == <<85, 80, 68, 65, 84, 69, 32, 117, 115, 101, 114, 115, 32, 83, 69, 84, 32, 105,
              100, 32, 61, 32, 50>>
\* "  DELETE FROM users"
q_delete == <<32, 32, 68, 69, 76, 69, 84, 69, 32, 70, 82, 79, 77, 32, 117, 115, 101, 114, 115>>
\* "TRUNCATE TABLE users"
q_truncate == <<84, 82, 85, 78, 67, 65, 84, 69, 32, 84, 65, 66, 76, 69, 32, 117, 115, 101,
                114, 115>>
\* "DROP TABLE users"
q_drop == <<68, 82, 79, 80, 32, 84, 65, 66, 76, 69, 32, 117, 115, 101, 114, 115>>

\* "INSERT", "UPDATE", "DELETE", "TRUNCATE", "DROP"
op_INSERT == <<73, 78, 83, 69, 82, 84>>
op_UPDATE == <<85, 80, 68, 65, 84, 69>>
op_DELETE == <<68, 69, 76, 69, 84, 69>>
op_TRUNCATE == <<84, 82, 85, 78, 67, 65, 84, 69>>
op_DROP == <<68, 82, 79, 80>>

\* INSERT, UPDATE, DELETE, CREATE, ALTER, DROP, TRUNCATE, REPLACE, MERGE
writeKeywords ==
  <<op_INSERT, op_UPDATE, op_DELETE,
    <<67, 82, 69, 65, 84, 69>>,
    <<65, 76, 84, 69, 82>>,
    op_DROP, op_TRUNCATE,
    <<82, 69, 80, 76, 65, 67, 69>>,
    <<77, 69, 82, 71, 69>>>>

\* the number of statements that reach the adapter in one behaviour
MaxQueries == 2

\* the statements clients send
Statements == {q_select, q_insert, q_update, q_delete, q_truncate, q_drop}

\* white space of String.prototype.trim and of \s
IsSpace(c) ==
  c \in {9, 10, 11, 12, 13, 32, 160, 5760, 8232, 8233, 8239, 8287, 12288, 65279}
  \/ c \in 8192..8202

\* String.prototype.toUpperCase on the ASCII range
toUpperCase(s) == [i \in DOMAIN s |-> IF s[i] \in 97..122 THEN s[i] - 32 ELSE s[i]]

\* String.prototype.trim
trim(s) ==
  LET solid == {i \in DOMAIN s : ~IsSpace(s[i])} IN
  IF solid = {} THEN <<>>
  ELSE SubSeq(s, CHOOSE i \in solid : \A j \in solid : i <= j,
                 CHOOSE i \in solid : \A j \in solid : j <= i)

\* String.prototype.startsWith
startsWith(s, prefix) == Len(prefix) <= Len(s) /\ SubSeq(s, 1, Len(prefix)) = prefix

isWriteOperation(sql) ==
  LET upperSql == toUpperCase(trim(sql)) IN
  \E k \in DOMAIN writeKeywords : startsWith(upperSql, writeKeywords[k])

\* sql.trim().split(/\s+/)[0].toUpperCase()
FirstWord(sql) ==
  LET t == trim(sql)
      spaces == {i \in DOMAIN t : IsSpace(t[i])}
  IN toUpperCase(IF spaces = {} THEN t
                 ELSE SubSeq(t, 1, (CHOOSE i \in spaces : \A j \in spaces : i <= j) - 1))

\* an Error of runQuery or of the adapter: its message, and the operation
\* the message names (<<>>: none)
QueryError(message, operation) == [message |-> message, operation |-> operation]

\* the check runQuery makes before it touches the cache or the adapter: the
\* Error it throws, or Absent.  config.readOnly[dbId] is config?.readOnly of
\* a configured database; options.disableDangerousOperations is passed by
\* index.ts and read nowhere.
WriteCheck(dbId, sql) ==
  IF ~isWriteOperation(sql) THEN Absent
  ELSE IF ~config.allowWrite /\ ((~config.readOnly[dbId]) = FALSE)
  THEN QueryError("Write operations are not allowed. Set allowWrite in config.", <<>>)
  ELSE IF /\ Len(config.allowedWriteOperations) > 0
          /\ \A i \in DOMAIN config.allowedWriteOperations :
               config.allowedWriteOperations[i] # FirstWord(sql)
  THEN QueryError("Write operation is not allowed.", FirstWord(sql))
  ELSE Absent

\* runQuery(dbId, sql) up to `await adapter.query`.  The schema of the
\* database is in the memory cache and fresh, so introspectSchema(dbId, false)
\* returns it without taking the lock; the adapter is connected.
RunQueryCall(t, dbId, sql) ==
  /\ Free(t) /\ MemoryHit(dbId)
  /\ calls < MaxQueries
  /\ LET c == [op |-> "runQuery", dbId |-> dbId, sql |-> sql]
         error == WriteCheck(dbId, sql)
     IN IF error # Absent
        THEN /\ result' = [result EXCEPT ![t] = Threw(c, error)]
             /\ UNCHANGED <<pc, call, log, calls>>
        ELSE /\ pc' = [pc EXCEPT ![t] = "query"]
             /\ call' = [call EXCEPT ![t] = c]
             /\ log' = [log EXCEPT !.queried = @ \cup {[dbId |-> dbId, sql |-> sql]}]
             /\ calls' = calls + 1
             /\ UNCHANGED result
  /\ UNCHANGED <<now, config, input, output, cacheVars, introspectionLocks, awaiting,
                 outcome, ticks, slowQueryAlerts, seenSlow, alertCalls,
                 alertsAsOf, history, tracked>>

\* the tail of runQuery: what queryTracker.track does to the history
Tracking(dbId, entry) ==
  /\ history' = [history EXCEPT ![dbId] = pushBounded(@, entry)]
  /\ tracked' = [tracked EXCEPT ![dbId] = Append(@, entry)]
  /\ now' = now + 1

\* adapter.query resolves: the result is tracked and returned
QueryResolve(t, executionTimeMs) ==
  /\ pc[t] = "query"
  /\ Tracking(call[t].dbId, HistoryEntry(now, call[t].sql, executionTimeMs, 1, ""))
  /\ result' = [result EXCEPT ![t] =
                  [kind |-> "rows", call |-> call[t], at |-> now,
                   executionTimeMs |-> executionTimeMs]]
  /\ log' = [log EXCEPT !.resolved = @ \cup {call[t]}]
  /\ pc' = [pc EXCEPT ![t] = "idle"]
  /\ UNCHANGED <<config, input, output, cacheVars, introspectionLocks, call, awaiting,
                 outcome, calls, ticks, slowQueryAlerts, seenSlow, alertCalls,
                 alertsAsOf>>

\* adapter.query rejects: the error is tracked and thrown again
QueryReject(t, message) ==
  /\ pc[t] = "query"
  /\ Tracking(call[t].dbId, HistoryEntry(now, call[t].sql, 0, 0, message))
  /\ result' = [result EXCEPT ![t] = Threw(call[t], QueryError(message, <<>>))]
  /\ pc' = [pc EXCEPT ![t] = "idle"]
  /\ UNCHANGED <<config, input, output, cacheVars, introspectionLocks, call, awaiting,
                 outcome, calls, ticks, log, slowQueryAlerts, seenSlow, alertCalls,
                 alertsAsOf>>

\* the message of an exception raised by the statement that records the query
trackFailure == "tracking failed"

\* adapter.query resolves and the statement `this.queryTracker.track(dbId, sql,
\* result.executionTimeMs, result.rowCount)` throws before it has pushed an
\* entry.  The statement stands inside the try block, so the catch block runs:
\* it calls track(dbId, sql, 0, 0, error.message), which records the failure
\* as an execution of the query (or throws again: `again`), and the exception
\* leaves runQuery.
QueryResolveTrackThrows(t, again) ==
  /\ pc[t] = "query"
  /\ IF again
     THEN UNCHANGED <<history, tracked, now>>
     ELSE Tracking(call[t].dbId, HistoryEntry(now, call[t].sql, 0, 0, trackFailure))
  /\ result' = [result EXCEPT ![t] = Threw(call[t], QueryError(trackFailure, <<>>))]
  /\ log' = [log EXCEPT !.resolved = @ \cup {call[t]}]
  /\ pc' = [pc EXCEPT ![t] = "idle"]
  /\ UNCHANGED <<config, input, output, cacheVars, introspectionLocks, call, awaiting,
                 outcome, calls, ticks, slowQueryAlerts, seenSlow, alertCalls,
                 alertsAsOf>>

\* the security options of the server and readOnly of the database
QueryConfigs ==
  {[cacheTtlMinutes |-> 1, maxTables |-> [d \in DbIds |-> 0],
    allowWrite |-> w, allowedWriteOperations |-> ops,
    disableDangerousOperations |-> dd, readOnly |-> [d \in DbIds |-> ro]] :
     w \in BOOLEAN, dd \in BOOLEAN, ro \in BOOLEAN,
     ops \in {<<>>, <<op_INSERT, op_UPDATE>>}}

\* a DatabaseManager whose database is connected and whose schema is cached
InitQuery ==
  /\ now = 0
  /\ config \in QueryConfigs
  /\ cache = [d \in DbIds |-> NewEntry(SchemaV1(d, now), 0)]
  /\ disk = [d \in DbIds |-> JsonFile(stringify(cache[d]))]
  /\ writes = {}
  /\ introspectionLocks = [d \in DbIds |-> 0]
  /\ InitTasks
  /\ calls = 0
  /\ ticks = 0
  /\ log = LogInit
  /\ InitNoTracker
  /\ InitNoUtils

NextQuery ==
  \/ \E t \in Tasks, d \in DbIds, sql \in Statements : RunQueryCall(t, d, sql)
  \/ \E t \in Tasks : QueryResolve(t, 400)
  \/ \E t \in Tasks : QueryReject(t, "query failed")
  \/ \E t \in Tasks, again \in BOOLEAN : QueryResolveTrackThrows(t, again)

SpecQuery == InitQuery /\ [][NextQuery]_vars

(***************************************************************************)
(* Properties of the write checks of runQuery                              *)
(***************************************************************************)
\* the runQuery calls that have returned or thrown, with what they gave
Finished == {result[t] : t \in {u \in Tasks : result[u].kind # "none"}}

\* the statements of database d that were passed to adapter.query
QueriedOn(d) == {q.sql : q \in {x \in log.queried : x.dbId = d}}

\* C16: while allowWrite is false, runQuery rejects every statement that
\* isWriteOperation classifies as a write, for every database whatever its
\* readOnly setting, and no such statement reaches the adapter.
C16_NoWriteWithoutAllowWrite ==
  ~config.allowWrite =>
    /\ \A d \in DbIds : \A sql \in QueriedOn(d) : ~isWriteOperation(sql)
    /\ \A r \in Finished : isWriteOperation(r.call.sql) => r.kind = "error"

\* C17: runQuery rejects every write statement addressed to a database whose
\* readOnly is true, whatever the value of allowWrite.
C17_ReadOnlyDatabaseTakesNoWrite ==
  \A d \in DbIds :
    config.readOnly[d] =>
      /\ \A sql \in QueriedOn(d) : ~isWriteOperation(sql)
      /\ \A r \in Finished :
           (r.call.dbId = d /\ isWriteOperation(r.call.sql)) => r.kind = "error"

\* the operations disableDangerousOperations is about
DangerousOperations == {op_DELETE, op_TRUNCATE, op_DROP}

\* the call was rejected with 'Dangerous operation <OP> is disabled'
RejectedAsDangerous(r) ==
  /\ r.kind = "error"
  /\ r.error = QueryError("Dangerous operation is disabled", FirstWord(r.call.sql))

\* C18: with disableDangerousOperations true, runQuery rejects DELETE, TRUNCATE
\* and DROP with the error 'Dangerous operation <OP> is disabled' even if
\* allowWrite is true (and no list of allowed operations is configured), and it
\* does not reject INSERT with that error; with the option false it does not
\* reject DELETE with that error.
C18_DangerousOperationsDisabled ==
  \A r \in Finished :
    /\ (/\ config.disableDangerousOperations
        /\ config.allowWrite
        /\ config.allowedWriteOperations = <<>>
        /\ FirstWord(r.call.sql) \in DangerousOperations) => RejectedAsDangerous(r)
    /\ FirstWord(r.call.sql) = op_INSERT => ~RejectedAsDangerous(r)
    /\ (~config.disableDangerousOperations /\ FirstWord(r.call.sql) = op_DELETE)
         => ~RejectedAsDangerous(r)

(***************************************************************************)
(* utils.extractTableNames and QueryOptimizer.generateIndexRecommendations *)
(*                                                                         *)
(* The regular expressions are computed on the characters of the text.     *)
(* The statements of the model contain no JOIN, so the JOIN pattern of     *)
(* generateIndexRecommendations matches nothing (GetIndexRecommendations   *)
(* requires it).                                                           *)
(***************************************************************************)
\* "email"
s_email == <<101, 109, 97, 105, 108>>
\* "SELECT * FROM users WHERE email = 1 LIMIT 5"
q_by_email ==
  <<83, 69, 76, 69, 67, 84, 32, 42, 32, 70, 82, 79, 77, 32, 117, 115, 101, 114, 115, 32, 87,
    72, 69, 82, 69, 32, 101, 109, 97, 105, 108, 32, 61, 32, 49, 32, 76, 73, 77, 73, 84, 32, 53>>
\* "SELECT * FROM users WHERE email = 1"
q_by_email_bare ==
  <<83, 69, 76, 69, 67, 84, 32, 42, 32, 70, 82, 79, 77, 32, 117, 115, 101, 114, 115, 32, 87,
    72, 69, 82, 69, 32, 101, 109, 97, 105, 108, 32, 61, 32, 49>>
\* "SELECT * FROM users WHERE id = 1 LIMIT 5"
q_by_id ==
  <<83, 69, 76, 69, 67, 84, 32, 42, 32, 70, 82, 79, 77, 32, 117, 115, 101, 114, 115, 32, 87,
    72, 69, 82, 69, 32, 105, 100, 32, 61, 32, 49, 32, 76, 73, 77, 73, 84, 32, 53>>

\* "WHERE", "GROUP", "ORDER", "LIMIT", "FROM", "JOIN", "INTO"
kw_WHERE == <<87, 72, 69, 82, 69>>
kw_GROUP == <<71, 82, 79, 85, 80>>
kw_ORDER == <<79, 82, 68, 69, 82>>
kw_LIMIT == <<76, 73, 77, 73, 84>>
kw_FROM == <<70, 82, 79, 77>>
kw_JOIN == <<74, 79, 73, 78>>
kw_INTO == <<73, 78, 84, 79>>

\* the least and the greatest member of a non-empty set of numbers
Least(S) == CHOOSE x \in S : \A y \in S : x <= y
Greatest(S) == CHOOSE x \in S : \A y \in S : y <= x

\* \w
IsWordChar(c) == c \in 48..57 \/ c \in 65..90 \/ c \in 97..122 \/ c = 95
\* [a-zA-Z_]
IsIdentStart(c) == c \in 65..90 \/ c \in 97..122 \/ c = 95

\* the keyword kw, in any case, stands at position i of s
MatchesAt(s, i, kw) ==
  i >= 1 /\ i + Len(kw) - 1 <= Len(s) /\ toUpperCase(SubSeq(s, i, i + Len(kw) - 1)) = kw

\* the index of the last character of the longest run of characters of class
\* Class that starts at i; i - 1 when there is none
RunEnd(s, i, Class(_)) ==
  LET stops == {j \in i..Len(s) : ~Class(s[j])} IN
  IF i > Len(s) THEN i - 1
  ELSE IF stops = {} THEN Len(s)
  ELSE Least(stops) - 1

\* String.prototype.split for a one-character separator
RECURSIVE split(_, _)
split(s, sep) ==
  LET hits == {i \in DOMAIN s : s[i] = sep} IN
  IF hits = {} THEN <<s>>
  ELSE <<SubSeq(s, 1, Least(hits) - 1)>> \o split(SubSeq(s, Least(hits) + 1, Len(s)), sep)

\* Array.prototype.includes for strings
includes(arr, x) == \E i \in DOMAIN arr : arr[i] = x

\* the index of the last character of the keywords of a pattern of
\* extractTableNames that stand at i, 0 if they do not; pattern 1 is
\* (?:FROM|JOIN|INTO|UPDATE), pattern 2 is DELETE\s+FROM
KeywordEnd(s, i, pattern) ==
  IF pattern = 1
  THEN LET kws == {kw \in {kw_FROM, kw_JOIN, kw_INTO, op_UPDATE} : MatchesAt(s, i, kw)} IN
       IF kws = {} THEN 0 ELSE i + Len(CHOOSE kw \in kws : TRUE) - 1
  ELSE IF MatchesAt(s, i, op_DELETE)
  THEN LET f == RunEnd(s, i + 6, IsSpace) + 1 IN
       IF f > i + 6 /\ MatchesAt(s, f, kw_FROM) THEN f + 3 ELSE 0
  ELSE 0

\* [a-zA-Z_][a-zA-Z0-9_]*(?:\.[a-zA-Z_][a-zA-Z0-9_]*)? at j: the index of its
\* last character, 0 if it does not match
IdentEnd(s, j) ==
  IF j > Len(s) THEN 0
  ELSE IF ~IsIdentStart(s[j]) THEN 0
  ELSE LET e == RunEnd(s, j, IsWordChar) IN
       IF e + 2 <= Len(s) /\ s[e + 1] = 46 /\ IsIdentStart(s[e + 2])
       THEN RunEnd(s, e + 2, IsWordChar)
       ELSE e

\* the match of a pattern that starts at i: <<first, last>> index of the
\* captured name, or <<>>
TableMatchAt(s, i, pattern) ==
  LET e == KeywordEnd(s, i, pattern)
      j == RunEnd(s, e + 1, IsSpace) + 1
  IN IF e = 0 \/ j = e + 1 THEN <<>>
     ELSE IF IdentEnd(s, j) = 0 THEN <<>>
     ELSE <<j, IdentEnd(s, j)>>

\* sql.matchAll(pattern) from position p on: the captured names, lower-cased
RECURSIVE ScanTables(_, _, _)
ScanTables(s, p, pattern) ==
  LET starts == {i \in p..Len(s) : TableMatchAt(s, i, pattern) # <<>>} IN
  IF starts = {} THEN <<>>
  ELSE LET m == TableMatchAt(s, Least(starts), pattern) IN
       <<toLowerCase(SubSeq(s, m[1], m[2]))>> \o ScanTables(s, m[2] + 1, pattern)

\* Array.from(new Set(arr)): the first occurrence of every element
RECURSIVE Distinct(_)
Distinct(arr) ==
  IF arr = <<>> THEN <<>>
  ELSE LET rest == Distinct(SubSeq(arr, 1, Len(arr) - 1)) IN
       IF includes(rest, arr[Len(arr)]) THEN rest ELSE Append(rest, arr[Len(arr)])

extractTableNames(sql) == Distinct(ScanTables(sql, 1, 1) \o ScanTables(sql, 1, 2))

\* (GROUP|ORDER|LIMIT|$) at position p
TerminatorAt(s, p) ==
  p = Len(s) + 1 \/ \E kw \in {kw_GROUP, kw_ORDER, kw_LIMIT} : MatchesAt(s, p, kw)

\* entry.sql.match(/WHERE\s+(.+?)(?:\s+(GROUP|ORDER|LIMIT|$))/i): group 1, or
\* <<>> when there is no match.  The leftmost WHERE that can match wins, \s+
\* takes as much as it can, and (.+?) as little as it can.
whereClause(sql) ==
  LET n == Len(sql)
      Ends(j) ==
        {k \in j..n :
           /\ \A x \in j..k : IsDotChar(sql[x])
           /\ \E m \in (k + 1)..n :
                /\ \A x \in (k + 1)..m : IsSpace(sql[x])
                /\ TerminatorAt(sql, m + 1)}
      Starts(i) ==
        {j \in (i + 6)..n : (\A x \in (i + 5)..(j - 1) : IsSpace(sql[x])) /\ Ends(j) # {}}
      matches == {i \in 1..n : MatchesAt(sql, i, kw_WHERE) /\ Starts(i) # {}}
  IN IF matches = {} THEN <<>>
     ELSE LET j == Greatest(Starts(Least(matches))) IN SubSeq(sql, j, Least(Ends(j)))

\* condition.match(/\b(\w+\.)?(\w+)\b/g) from position p on
RECURSIVE columnMatches(_, _)
columnMatches(s, p) ==
  LET starts == {i \in p..Len(s) : IsWordChar(s[i]) /\ (i = 1 \/ ~IsWordChar(s[i - 1]))} IN
  IF starts = {} THEN <<>>
  ELSE LET i == Least(starts)
           e1 == RunEnd(s, i, IsWordChar)
           e == IF e1 + 2 <= Len(s) /\ s[e1 + 1] = 46 /\ IsWordChar(s[e1 + 2])
                THEN RunEnd(s, e1 + 2, IsWordChar)
                ELSE e1
       IN <<SubSeq(s, i, e)>> \o columnMatches(s, e + 1)

\* findTableInSchema: the first table of that name, or Absent
findTableInSchema(schema, tableName) ==
  LET tabs == TablesOf(schema.schemas)
      hits == {i \in DOMAIN tabs : tabs[i].table.name = tableName}
  IN IF hits = {} THEN Absent ELSE tabs[Least(hits)].table

\* the columns one match contributes (0 or 1)
ColumnsOfMatch(match, tables, schema) ==
  IF includes(match, 46)
  THEN LET parts == split(match, 46) IN
       IF includes(tables, parts[1])
       THEN <<[table |-> parts[1], column |-> parts[2]]>>
       ELSE <<>>
  ELSE LET owners == {t \in DOMAIN tables :
                        LET tableMeta == findTableInSchema(schema, tables[t]) IN
                        /\ tableMeta # Absent
                        /\ \E c \in DOMAIN tableMeta.columns :
                             tableMeta.columns[c].name = match}
       IN IF owners = {} THEN <<>>
          ELSE <<[table |-> tables[Least(owners)], column |-> match]>>

RECURSIVE ColumnsOfMatches(_, _, _)
ColumnsOfMatches(matches, tables, schema) ==
  IF matches = <<>> THEN <<>>
  ELSE ColumnsOfMatch(matches[1], tables, schema)
       \o ColumnsOfMatches(Tail(matches), tables, schema)

extractColumnsFromCondition(condition, tables, schema) ==
  ColumnsOfMatches(columnMatches(condition, 1), tables, schema)

\* the Map columnUsage as the sequence of its keys in insertion order: one
\* more use, in a WHERE clause, of every column of cols
RECURSIVE UseInWhere(_, _)
UseInWhere(columnUsage, cols) ==
  IF cols = <<>> THEN columnUsage
  ELSE LET key == cols[1].table \o s_dot \o cols[1].column
           hits == {i \in DOMAIN columnUsage : columnUsage[i].key = key}
       IN UseInWhere(
            IF hits = {}
            THEN Append(columnUsage, [key |-> key, table |-> cols[1].table, usage |-> 1,
                                      inWhere |-> TRUE, inJoin |-> FALSE])
            ELSE [columnUsage EXCEPT ![Least(hits)] =
                    [@ EXCEPT !.usage = @ + 1, !.inWhere = TRUE]],
            Tail(cols))

\* the first loop: the column usage the history shows
RECURSIVE AnalyzeHistory(_, _, _)
AnalyzeHistory(columnUsage, queryHistory, schema) ==
  IF queryHistory = <<>> THEN columnUsage
  ELSE LET entry == queryHistory[1]
           clause == whereClause(entry.sql)
       IN AnalyzeHistory(
            IF entry.error # "" \/ clause = <<>> THEN columnUsage
            ELSE UseInWhere(columnUsage,
                            extractColumnsFromCondition(clause, extractTableNames(entry.sql),
                                                        schema)),
            Tail(queryHistory), schema)

\* a column used fewer times than this is not recommended
minUsage == 3
\* usage counts above these have impact high and medium
highAbove == 10
mediumAbove == 5
Impact(usage) == IF usage > highAbove THEN "high" ELSE IF usage > mediumAbove THEN "medium" ELSE "low"

\* the second loop: the recommendation of one column, as a sequence of 0 or 1.
\* The text of reason is determined by the column name, inWhere and inJoin.
Recommend(usage, schema) ==
  LET parts == split(usage.key, 46)
      table == findTableInSchema(schema, parts[1])
  IN IF usage.usage < minUsage THEN <<>>
     ELSE IF table = Absent THEN <<>>
     ELSE IF \E x \in DOMAIN table.indexes :
               includes(table.indexes[x].columns, parts[2]) /\ ~table.indexes[x].isPrimary
     THEN <<>>
     ELSE <<[table |-> parts[1], columns |-> <<parts[2]>>, type |-> "single",
             inWhere |-> usage.inWhere, inJoin |-> usage.inJoin,
             impact |-> Impact(usage.usage)]>>

RECURSIVE RecommendAll(_, _)
RecommendAll(columnUsage, schema) ==
  IF columnUsage = <<>> THEN <<>>
  ELSE Recommend(columnUsage[1], schema) \o RecommendAll(Tail(columnUsage), schema)

\* recommendations.sort by impact, high first; the sort is stable
sortByImpact(recs) ==
  SelectSeq(recs, LAMBDA r : r.impact = "high")
  \o SelectSeq(recs, LAMBDA r : r.impact = "medium")
  \o SelectSeq(recs, LAMBDA r : r.impact = "low")

generateIndexRecommendations(queryHistory, schema) ==
  sortByImpact(RecommendAll(AnalyzeHistory(<<>>, queryHistory, schema), schema))

\* QueryTracker.getIndexRecommendations(dbId, schema)
GetIndexRecommendations(dbId) ==
  /\ input # Absent
  /\ \A i \in DOMAIN history[dbId] :
       \A p \in DOMAIN history[dbId][i].sql : ~MatchesAt(history[dbId][i].sql, p, kw_JOIN)
  /\ output' = Applied("generateIndexRecommendations", history[dbId],
                       generateIndexRecommendations(history[dbId], input.schema))
  /\ UNCHANGED <<now, config, input, cacheVars, introspectionLocks, taskVars, calls, ticks,
                 log, trackerVars>>

\* users(id PK, email), with or without an index on email; the adapters list
\* the primary key under primaryKey and leave it out of indexes
IndexVariants == {"none", "email"}
IndexedUsers(variant) ==
  [schema |-> s_public, name |-> s_users, type |-> "table",
   columns |-> <<Column(s_id), Column(s_email)>>, primaryKey |-> PrimaryKey(<<s_id>>),
   indexes |-> IF variant = "email"
               THEN <<[name |-> "idx_email", columns |-> <<s_email>>, isUnique |-> FALSE,
                       isPrimary |-> FALSE]>>
               ELSE <<>>,
   foreignKeys |-> <<>>]

IndexSchema(variant) ==
  [dbId |-> "db1", dbType |-> "postgres",
   schemas |-> <<[name |-> s_public, tables |-> <<IndexedUsers(variant)>>]>>,
   introspectedAt |-> Date(0), version |-> ""]

\* the history plain queries without WHERE followed by byEmail queries with
\* WHERE email leave
RECURSIVE Recorded(_, _)
Recorded(plain, byEmail) ==
  IF plain + byEmail = 0 THEN <<>>
  ELSE pushBounded(Recorded(IF byEmail > 0 THEN plain ELSE plain - 1,
                            IF byEmail > 0 THEN byEmail - 1 ELSE 0),
                   HistoryEntry(plain + byEmail - 1,
                                IF byEmail > 0 THEN q_by_email ELSE q_select, 400, 1, ""))

\* the statements tracked in SpecIndex
IndexSqlTexts == {q_by_email, q_by_email_bare, q_by_id}

\* a tracker that has recorded nothing, or 5 plain queries and 2 by email
InitIndex ==
  /\ config \in {c \in Configs : c.maxTables = [d \in DbIds |-> 0]}
  /\ cache = [d \in DbIds |-> Absent]
  /\ disk = [d \in DbIds |-> NoFile]
  /\ writes = {}
  /\ introspectionLocks = [d \in DbIds |-> 0]
  /\ InitTasks
  /\ calls = 0
  /\ ticks = 0
  /\ log = LogInit
  /\ history \in [DbIds -> {<<>>, Recorded(5, 2)}]
  /\ tracked = history
  /\ now = Len(history["db1"])
  /\ slowQueryAlerts = [d \in DbIds |-> <<>>]
  /\ seenSlow = [d \in DbIds |-> {}]
  /\ alertCalls = 0
  /\ alertsAsOf = [d \in DbIds |-> Len(tracked[d])]
  /\ input \in {[schema |-> IndexSchema(v)] : v \in IndexVariants}
  /\ output = Absent

NextIndex ==
  \/ \E d \in DbIds, q \in IndexSqlTexts : TrackResult(d, q, 400)
  \/ \E d \in DbIds : GetIndexRecommendations(d)

SpecIndex == InitIndex /\ [][NextIndex]_vars

(***************************************************************************)
(* Properties of the index recommendations                                 *)
(***************************************************************************)
\* the statement names the column in its WHERE clause
ReferencesInWhere(sql, column) ==
  \/ column = s_email /\ sql \in {q_by_email, q_by_email_bare}
  \/ column = s_id /\ sql = q_by_id

\* the table of the schema has an index on the column: its primary key or
\* any other index
IndexedOn(schema, tableName, column) ==
  LET table == findTableInSchema(schema, tableName) IN
  /\ table # Absent
  /\ \/ includes(table.primaryKey.columns, column)
     \/ \E x \in DOMAIN table.indexes : includes(table.indexes[x].columns, column)

\* C19: a column that the WHERE clause of 5 of 10 tracked queries names, on a
\* table with no index on that column, is recommended with impact medium.
C19_FiveOfTenIsMedium ==
  (output # Absent /\ output.fn = "generateIndexRecommendations") =>
    \A column \in {s_email, s_id} :
      (/\ Len(output.args) = 10
       /\ Cardinality({i \in DOMAIN output.args :
                         ReferencesInWhere(output.args[i].sql, column)}) = 5
       /\ ~IndexedOn(input.schema, s_users, column))
      => \E r \in DOMAIN output.value :
           /\ output.value[r].table = s_users
           /\ output.value[r].columns = <<column>>
           /\ output.value[r].impact = "medium"

\* C20: no recommendation names a column that its table already indexes, by
\* the primary key or by any other index, whatever the usage count.
C20_IndexedColumnNotRecommended ==
  (output # Absent /\ output.fn = "generateIndexRecommendations") =>
    \A r \in DOMAIN output.value :
      ~IndexedOn(input.schema, output.value[r].table, output.value[r].columns[1])

(***************************************************************************)
(* Query tracking inside runQuery                                          *)
(***************************************************************************)
\* the finished runQuery calls whose statement the adapter executed
Executed == {r \in Finished : r.call \in log.resolved}

Unusable(dbId) == disk[dbId].kind \in {"nofile", "empty", "corrupt"}

\* task t returns from the disk read of get() in this step
GetReturnsFromDisk(t) == pc[t] = "get_read" /\ pc'[t] = "idle"

\* C22: a durable record that is missing, unreadable or not parseable makes
\* get(dbId) report a miss: get returns null, raises nothing and leaves the
\* memory layer as it is.
C22_UnusableRecordIsMiss ==
  [][\A t \in Tasks :
       (GetReturnsFromDisk(t)
        /\ (Unusable(call[t].dbId) \/ "readFile" \in DOMAIN result'[t].call))
       => /\ result'[t].kind = "null"
          /\ result'[t].call.op = "get"
          /\ cache' = cache]_vars

\* a get() has just returned null over a record that is there but is not
\* parseable, and another over a file that could not be read
C22_MissOverDamagedRecord ==
  /\ \E t \in Tasks :
       /\ result[t].kind = "null" /\ result[t].call = [op |-> "get", dbId |-> "db1"]
       /\ result[t].at = now
       /\ disk["db1"].kind \in {"empty", "corrupt"}
       /\ ~MemoryHit("db1")
  /\ \E t \in Tasks : result[t].kind = "null" /\ "readFile" \in DOMAIN result[t].call

(***************************************************************************)
(* QueryTracker.getHistory                                                 *)
(***************************************************************************)
\* the optional argument limit: omitted (undefined) or a number
Omitted == [given |-> FALSE]
Given(n) == [given |-> TRUE, value |-> n]

\* the limits callers pass: none, 0, some small ones, the bound of the history
\* and one above it
Limits == {Omitted} \cup {Given(n) : n \in {0, 1, 2, 3, maxHistoryPerDb, maxHistoryPerDb + 1}}

\* `if (limit)`: undefined and 0 are falsy
Truthy(limit) == limit.given /\ limit.value # 0

\* Array.prototype.slice(start) for a negative start: the last -start elements,
\* all of them if there are fewer
sliceLast(array, count) ==
  IF count >= Len(array) THEN array
  ELSE SubSeq(array, Len(array) - count + 1, Len(array))

\* getHistory(dbId, limit) over this.history.get(dbId) || []
getHistory(dbHistory, limit) ==
  IF Truthy(limit) THEN sliceLast(dbHistory, limit.value) ELSE dbHistory

\* a client reads the history of a database
GetHistory(dbId, limit) ==
  /\ output' = Applied("getHistory", <<dbId, limit>>, getHistory(history[dbId], limit))
  /\ UNCHANGED <<now, config, input, cacheVars, introspectionLocks, taskVars, calls, ticks,
                 log, trackerVars>>

NextHistory ==
  \/ \E d \in DbIds, q \in SqlTexts, ms \in ExecTimes : TrackResult(d, q, ms)
  \/ \E d \in DbIds : TrackError(d, q_select)
  \/ \E d \in DbIds, limit \in Limits : GetHistory(d, limit)

\* a QueryTracker that is written to and read
SpecHistory == InitTracker /\ [][NextHistory]_vars

\* what the claim asks of getHistory(dbId, limit) over the history h
MostRecent(h, limit) ==
  IF limit.given
  THEN LET k == Min(limit.value, Len(h)) IN SubSeq(h, Len(h) - k + 1, Len(h))
  ELSE h

\* C23: getHistory(dbId, limit) returns exactly the most recent min(limit, n)
\* entries of the history in insertion order, for every limit >= 0, and all n
\* entries in insertion order when limit is omitted.
C23_HistoryReturnsMostRecent ==
  [][\A d \in DbIds, limit \in Limits :
       (output' # Absent /\ output' # output /\ output'.fn = "getHistory"
        /\ output'.args = <<d, limit>>)
       => output'.value = MostRecent(history[d], limit)]_vars

(***************************************************************************)
(* findJoinPaths over relationship graphs                                  *)
(***************************************************************************)
\* the tables a, b, c, d of schema public
GraphTables == {<<97>>, <<98>>, <<99>>, <<100>>}

\* the longest relationship list of the graphs searched
MaxRelationships == 3

\* the declared foreign key from.<to>_id -> to.id as a Relationship
Edge(from, to) ==
  [fromSchema |-> s_public, fromTable |-> from, fromColumns |-> <<to \o <<95>> \o s_id>>,
   toSchema |-> s_public, toTable |-> to, toColumns |-> <<s_id>>, type |-> "foreign_key"]

Edges == {Edge(p[1], p[2]) : p \in {q \in GraphTables \X GraphTables : q[1] # q[2]}}

\* the relationship lists of a cache entry: up to MaxRelationships edges
RelationshipLists ==
  UNION {[1..n -> Edges] : n \in 0..MaxRelationships}

\* the table lists a client passes, with schema-qualified names: none, one or
\* two tables
TableLists ==
  LET names == {s_public \o s_dot \o x : x \in GraphTables} IN
  {<<>>} \cup {<<x>> : x \in names} \cup {<<x, y>> : x \in names, y \in names}

\* the values of maxDepth callers pass
Depths == 1..maxDepthDefault

\* findJoinPaths(tables, relationships, maxDepth), applied once to the graph
FindJoinPaths(tables, maxDepth) ==
  /\ input # Absent /\ output = Absent
  /\ output' = Applied("findJoinPaths", <<tables, maxDepth>>,
                       findJoinPaths(tables, input.relationships, maxDepth))
  /\ UNCHANGED <<now, config, input, cacheVars, introspectionLocks, taskVars, calls, ticks,
                 log, trackerVars>>

InitJoins ==
  /\ now = 0
  /\ config \in {c \in Configs : c.cacheTtlMinutes = 1 /\ c.maxTables = [d \in DbIds |-> 0]}
  /\ cache = [d \in DbIds |-> Absent]
  /\ disk = [d \in DbIds |-> NoFile]
  /\ writes = {}
  /\ introspectionLocks = [d \in DbIds |-> 0]
  /\ InitTasks
  /\ calls = 0
  /\ ticks = 0
  /\ log = LogInit
  /\ InitNoTracker
  /\ input \in {[relationships |-> rels] : rels \in RelationshipLists}
  /\ output = Absent

NextJoins ==
  \E tables \in TableLists, maxDepth \in Depths : FindJoinPaths(tables, maxDepth)

\* findJoinPaths applied to relationship graphs
SpecJoins == InitJoins /\ [][NextJoins]_vars

\* the tables one relationship of rels away from table key x, in either direction
Neighbours(rels, x) ==
  {GraphKey(rels[i].toSchema, rels[i].toTable) :
     i \in {j \in DOMAIN rels : GraphKey(rels[j].fromSchema, rels[j].fromTable) = x}}
  \cup {GraphKey(rels[i].fromSchema, rels[i].fromTable) :
     i \in {j \in DOMAIN rels : GraphKey(rels[j].toSchema, rels[j].toTable) = x}}

\* the tables a chain of exactly k relationships of rels leads to from x
RECURSIVE ReachedIn(_, _, _)
ReachedIn(rels, x, k) ==
  IF k = 0 THEN {x}
  ELSE UNION {Neighbours(rels, y) : y \in ReachedIn(rels, x, k - 1)}

\* the lengths, from 1 to k, of the chains of relationships that connect x to y
ChainLengths(rels, x, y, k) == {n \in 1..k : y \in ReachedIn(rels, x, n)}

\* the last application was findJoinPaths(tables, relationships, maxDepth)
JoinsSearched == output # Absent /\ output.fn = "findJoinPaths"

\* C24: when fewer than two table names are given, or no chain of at most
\* maxDepth relationships connects the first two tables, findJoinPaths returns
\* the empty list (and raises nothing).
C24_NoPathIsEmptyList ==
  JoinsSearched =>
    LET tables == output.args[1]
        maxDepth == output.args[2]
    IN (\/ Len(tables) < 2
        \/ ChainLengths(input.relationships, toLowerCase(tables[1]),
                        toLowerCase(tables[2]), maxDepth) = {})
       => output.value = <<>>

\* findJoinPaths returned the empty list for two tables that a chain of
\* relationships longer than maxDepth connects
C24_ChainTooLong ==
  /\ JoinsSearched
  /\ Len(output.args[1]) = 2
  /\ output.value = <<>>
  /\ ChainLengths(input.relationships, toLowerCase(output.args[1][1]),
                  toLowerCase(output.args[1][2]), output.args[2]) = {}
  /\ ChainLengths(input.relationships, toLowerCase(output.args[1][1]),
                  toLowerCase(output.args[1][2]), MaxRelationships) # {}

\* the least element of a non-empty set of numbers
Minimum(S) == CHOOSE n \in S : \A m \in S : n <= m

\* the joins of a path lead from table key x to table key y, each one starting
\* at the table the one before it ends at
Connects(joins, x, y) ==
  /\ joins # <<>>
  /\ GraphKey(joins[1].fromSchema, joins[1].fromTable) = x
  /\ GraphKey(joins[Len(joins)].toSchema, joins[Len(joins)].toTable) = y
  /\ \A i \in 1..(Len(joins) - 1) :
       GraphKey(joins[i].toSchema, joins[i].toTable)
         = GraphKey(joins[i + 1].fromSchema, joins[i + 1].fromTable)

\* the hop counts of the chains within maxDepth between the two tables of the
\* last search
SearchedChainLengths ==
  ChainLengths(input.relationships, toLowerCase(output.args[1][1]),
               toLowerCase(output.args[1][2]), output.args[2])

FkUserAgain(refName) == [FkUser(refName) EXCEPT !.name = s_fk_parent]

\* the lists of foreign keys orders declares: up to two of fk_user, its
\* duplicate and the self reference, in any order
ForeignKeyLists(refName, ordersSchema) ==
  LET fks == {FkUser(refName), FkUserAgain(refName), FkParent(ordersSchema)} IN
  {<<>>} \cup {<<f>> : f \in fks}
  \cup {<<p[1], p[2]>> : p \in {q \in fks \X fks : q[1] # q[2]}}

\* a DatabaseSchema with the referenced table and orders(id PK, user_id,
\* parent_id) declaring the foreign keys fks
KeySchema(refName, fks, layout) ==
  LET ordersSchema == IF layout = "one" THEN s_public ELSE s_sales
      orders == [OrdersFor(refName, 2, ordersSchema) EXCEPT !.foreignKeys = fks]
  IN [dbId |-> "db1", dbType |-> "postgres",
      schemas |-> IF layout = "one"
                  THEN <<[name |-> s_public, tables |-> <<RefTable(refName), orders>>]>>
                  ELSE <<[name |-> s_public, tables |-> <<RefTable(refName)>>],
                         [name |-> s_sales, tables |-> <<orders>>]>>,
      introspectedAt |-> Date(0), version |-> ""]

KeySchemas ==
  UNION {{KeySchema(r, fks, l) :
            fks \in ForeignKeyLists(r, IF l = "one" THEN s_public ELSE s_sales)} :
         r \in RefNames, l \in Layouts}

InitKeys ==
  /\ now = 0
  /\ config \in {c \in Configs : c.cacheTtlMinutes = 1 /\ c.maxTables = [d \in DbIds |-> 0]}
  /\ cache = [d \in DbIds |-> Absent]
  /\ disk = [d \in DbIds |-> NoFile]
  /\ writes = {}
  /\ introspectionLocks = [d \in DbIds |-> 0]
  /\ InitTasks
  /\ calls = 0
  /\ ticks = 0
  /\ log = LogInit
  /\ InitNoTracker
  /\ input \in {[schema |-> s] : s \in KeySchemas}
  /\ output = Absent

NextKeys == BuildRelationships

\* buildRelationships applied to schemas with declared foreign keys
SpecKeys == InitKeys /\ [][NextKeys]_vars

\* C29: the relationship list built for a cache entry never holds two
\* relationships with the same identity key, whether they come from declared
\* foreign keys, from inference, or one from each.
C29_IdentityKeysAreUnique ==
  (output # Absent /\ output.fn = "buildRelationships") =>
    \A i \in DOMAIN output.value, j \in DOMAIN output.value :
      i # j => getRelationshipKey(output.value[i]) # getRelationshipKey(output.value[j])

(***************************************************************************)
(* acquireIntrospectionLock and the release function on their own          *)
(***************************************************************************)
\* the number of acquireIntrospectionLock calls of one behaviour
MaxLockCalls == 6

\* a task calls acquireIntrospectionLock(dbId): it waits for the promise in
\* the map, or stores its own at once
LockAcquire(t, dbId) ==
  /\ pc[t] = "idle" /\ calls < MaxLockCalls
  /\ calls' = calls + 1
  /\ Acquire(t, [op |-> "acquireIntrospectionLock", dbId |-> dbId, waited |-> FALSE])
  /\ UNCHANGED <<now, config, input, output, cacheVars, outcome, result, ticks, log,
                 trackerVars>>

\* a task that was given the release function calls it
LockRelease(t) ==
  /\ pc[t] = "locked"
  /\ ReleaseAndFinish(t, call[t].dbId)
  /\ call' = [call EXCEPT ![t] = NoCall]
  /\ result' = [result EXCEPT ![t] = [kind |-> "void", call |-> call[t], at |-> now]]
  /\ UNCHANGED <<now, config, input, output, cacheVars, outcome, calls, ticks, log,
                 trackerVars>>

NextLock ==
  \/ \E t \in Tasks, d \in DbIds : LockAcquire(t, d)
  \/ \E t \in Tasks : LockWake(t)
  \/ \E t \in Tasks : LockRelease(t)

\* tasks that take and release the lock in any order
SpecLock == Init /\ [][NextLock]_vars

\* the same, where every continuation of `await existingLock` is run by the
\* event loop and every task that was given the release function calls it
SpecLockFair ==
  /\ SpecLock
  /\ \A t \in Tasks : WF_vars(LockWake(t))
  /\ \A t \in Tasks : WF_vars(LockRelease(t))

\* C25: if every task that obtains the introspection lock eventually calls its
\* release function, every task that called acquireIntrospectionLock
\* eventually obtains the lock: no waiter's wake-up is lost, whatever the
\* number of waiters and the order of the releases.
C25_EveryWaiterObtainsLock ==
  \A t \in Tasks : (pc[t] \in {"wait_lock", "lock_ready"}) ~> (pc[t] = "locked")

\* two tasks that waited for the same promise have both been given the lock
C25_TwoWaitersWoken ==
  \E t \in Tasks, u \in Tasks :
    /\ t # u
    /\ pc[t] = "locked" /\ call[t].waited
    /\ pc[u] = "locked" /\ call[u].waited


(***************************************************************************)
(* Properties of the entries get() hands out                               *)
(***************************************************************************)
\* the entry the previous process stored, if it left a record
StoredBefore ==
  {[schema |-> SchemaV1(d, 0),
    relationships |-> buildRelationships(SchemaV1(d, 0)),
    cachedAt |-> Date(0),
    ttlMinutes |-> IF config.maxTables[d] # 0 THEN config.maxTables[d]
                   ELSE config.cacheTtlMinutes] : d \in DbIds}

\* the get(dbId) calls that returned an entry
GotEntry == {r \in Finished : r.kind = "entry" /\ r.call.op = "get"}

\* C26: every entry a reader obtains from get(dbId), at any interleaving of
\* concurrent set, get and clear calls, was stored as a whole by one set: its
\* relationships are the ones derived from its own schema, and its schema,
\* timestamp and TTL are those of that same set.
C26_EntriesAreWhole ==
  \A r \in GotEntry :
    /\ r.entry \in log.stored \cup StoredBefore
    /\ r.entry.relationships = buildRelationships(r.entry.schema)

\* after two sets with different schemas and relationships were made for a
\* database, a reader obtained the entry of one of them, some time after it
\* was stored
C26_ReadAmongTwoSets ==
  \E r \in GotEntry :
    /\ r.entry \in log.stored
    /\ cache[r.call.dbId] = r.entry
    /\ \E e \in log.stored :
         /\ e.schema.dbId = r.call.dbId
         /\ e.schema # r.entry.schema
         /\ e.relationships # r.entry.relationships
    /\ \E t \in Tasks : result[t] = r /\ "readFile" \notin DOMAIN r.call
                        /\ r.at > r.entry.cachedAt.ms


(***************************************************************************)
(* Properties of the durable record once the writes have finished          *)
(***************************************************************************)
\* every writeFile that set() started for dbId has finished, none of them
\* rejected, and clear(dbId) was never called
WritesSettled(dbId) ==
  /\ log.lastSet[dbId] # Absent
  /\ dbId \notin log.clearCalls
  /\ \A w \in writes : w.dbId # dbId
  /\ dbId \notin log.failedWrites

\* C27: once every background write that set calls started for dbId has
\* finished, and no clear intervened, the durable record of dbId holds the
\* entry of the latest set: the write of an earlier set never replaces the
\* record of a later one.
C27_RecordIsLatestSet ==
  \A d \in DbIds :
    WritesSettled(d) => disk[d] = JsonFile(stringify(log.lastSet[d]))


(***************************************************************************)
(* SchemaCache.getStatus, getStatusForDb and getPersistedDbIds             *)
(***************************************************************************)
\* '.json'
s_json == <<46, 106, 115, 111, 110>>

\* the characters of a database id
dbText(dbId) == IF dbId = "db1" THEN <<100, 98, 49>> ELSE <<>>

\* getCacheFilePath: the name of the file of dbId inside the cache directory
getCacheFileName(dbId) == dbText(dbId) \o s_json

\* String.prototype.endsWith
endsWith(s, suffix) ==
  Len(suffix) <= Len(s) /\ SubSeq(s, Len(s) - Len(suffix) + 1, Len(s)) = suffix

\* String.prototype.replace(pattern, '') with a string pattern: the first
\* occurrence is removed
replaceFirst(s, pattern) ==
  LET at == {i \in 1..(Len(s) - Len(pattern) + 1) :
               SubSeq(s, i, i + Len(pattern) - 1) = pattern}
  IN IF at = {} THEN s
     ELSE LET i == CHOOSE j \in at : \A k \in at : j <= k
          IN SubSeq(s, 1, i - 1) \o SubSeq(s, i + Len(pattern), Len(s))

\* fs.readdir(cacheDir): the names of the files that exist
readdir == {getCacheFileName(d) : d \in {e \in DbIds : disk[e].kind # "nofile"}}

\* getPersistedDbIds: the ids named by the .json files of the cache directory
getPersistedDbIds ==
  LET names == {replaceFirst(f, s_json) : f \in {g \in readdir : endsWith(g, s_json)}}
  IN {d \in DbIds : dbText(d) \in names}

\* the ids of a set in the order getStatus visits them
RECURSIVE IdList(_)
IdList(ids) ==
  IF ids = {} THEN <<>>
  ELSE LET d == CHOOSE e \in ids : TRUE IN <<d>> \o IdList(ids \ {d})

\* schema.schemas.reduce((sum, s) => sum + s.tables.length, 0)
RECURSIVE tableCount(_)
tableCount(schemaObjs) ==
  IF schemaObjs = <<>> THEN 0
  ELSE Len(schemaObjs[1].tables) + tableCount(Tail(schemaObjs))

\* the CacheStatus getStatusForDb builds from what get() returned
StatusOf(dbId, entry) ==
  IF entry = Absent THEN [dbId |-> dbId, exists |-> FALSE]
  ELSE [dbId |-> dbId, exists |-> TRUE,
        age |-> now - getTime(entry.cachedAt),
        ttlMinutes |-> entry.ttlMinutes,
        expired |-> isExpired(entry),
        version |-> entry.schema.version,
        tableCount |-> tableCount(entry.schema.schemas),
        relationshipCount |-> Len(entry.relationships)]

\* getStatusForDb(id) up to `await this.get(id)`: get() answers from memory,
\* or suspends on fs.readFile
StatusGetBegin(t, c) ==
  LET dbId == Head(c.ids) IN
  IF MemoryHit(dbId)
  THEN /\ pc' = [pc EXCEPT ![t] = "status_got"]
       /\ call' = [call EXCEPT ![t] = [c EXCEPT !.got = cache[dbId]]]
  ELSE /\ pc' = [pc EXCEPT ![t] = "status_read"]
       /\ call' = [call EXCEPT ![t] = c]

StatusCallOf(arg) ==
  [op |-> "getStatus", arg |-> arg, keys |-> {}, ids |-> <<>>, got |-> Absent,
   statuses |-> <<>>]

\* getStatus(dbId): one database
StatusCall(t, dbId) ==
  /\ Free(t) /\ calls < MaxCalls
  /\ calls' = calls + 1
  /\ StatusGetBegin(t, [StatusCallOf(dbId) EXCEPT !.ids = <<dbId>>])
  /\ UNCHANGED <<now, config, input, output, cacheVars, introspectionLocks, awaiting,
                 outcome, result, ticks, log, trackerVars>>

\* getStatus(): the keys of the memory map are taken, then readdir is awaited
StatusCallAll(t) ==
  /\ Free(t) /\ calls < MaxCalls
  /\ calls' = calls + 1
  /\ pc' = [pc EXCEPT ![t] = "status_readdir"]
  /\ call' = [call EXCEPT ![t] =
                [StatusCallOf("") EXCEPT !.keys = {d \in DbIds : cache[d] # Absent}]]
  /\ UNCHANGED <<now, config, input, output, cacheVars, introspectionLocks, awaiting,
                 outcome, result, ticks, log, trackerVars>>

\* readdir settles: the Set of ids is built and the loop starts
StatusReaddir(t) ==
  /\ pc[t] = "status_readdir"
  /\ LET ids == IdList(call[t].keys \cup getPersistedDbIds) IN
     IF ids = <<>>
     THEN /\ result' = [result EXCEPT ![t] =
                          [kind |-> "statuses", call |-> call[t], at |-> now,
                           statuses |-> <<>>, ids |-> {}]]
          /\ pc' = [pc EXCEPT ![t] = "idle"]
          /\ call' = [call EXCEPT ![t] = NoCall]
     ELSE /\ StatusGetBegin(t, [call[t] EXCEPT !.ids = ids])
          /\ UNCHANGED result
  /\ UNCHANGED <<now, config, input, output, cacheVars, introspectionLocks, awaiting,
                 outcome, calls, ticks, log, trackerVars>>

\* fs.readFile settles inside get(): the tail of get() runs; a rejected read
\* (other than ENOENT) is caught by get(), which returns null
StatusRead(t, readable) ==
  /\ pc[t] = "status_read"
  /\ LET dbId == Head(call[t].ids)
         cached == IF readable THEN GetFromDisk(disk[dbId]) ELSE Absent
     IN /\ cache' = Promote(dbId, cached)
        /\ call' = [call EXCEPT ![t].got = cached]
  /\ pc' = [pc EXCEPT ![t] = "status_got"]
  /\ UNCHANGED <<now, config, input, output, disk, writes, introspectionLocks, awaiting,
                 outcome, result, calls, ticks, log, trackerVars>>

\* getStatusForDb continues after `await this.get(id)`: Date.now() is read
\* again, the status is pushed, and the loop goes on or getStatus returns
StatusGot(t) ==
  /\ pc[t] = "status_got"
  /\ LET c == call[t]
         statuses == Append(c.statuses, StatusOf(Head(c.ids), c.got))
         rest == Tail(c.ids)
     IN IF rest = <<>>
        THEN /\ result' = [result EXCEPT ![t] =
                             [kind |-> "statuses", call |-> [c EXCEPT !.got = Absent],
                              at |-> now, statuses |-> statuses,
                              ids |-> {d \in DbIds : cache[d] # Absent
                                                      \/ disk[d].kind # "nofile"}]]
             /\ pc' = [pc EXCEPT ![t] = "idle"]
             /\ call' = [call EXCEPT ![t] = NoCall]
        ELSE /\ StatusGetBegin(t, [c EXCEPT !.ids = rest, !.got = Absent,
                                            !.statuses = statuses])
             /\ UNCHANGED result
  /\ UNCHANGED <<now, config, input, output, cacheVars, introspectionLocks, awaiting,
                 outcome, calls, ticks, log, trackerVars>>

NextStatus ==
  \/ \E t \in Tasks, d \in DbIds, w \in SchemaMakers, ttl \in {0} \cup TtlChoices :
       CacheSet(t, d, w, ttl)
  \/ \E t \in Tasks, d \in DbIds : StatusCall(t, d)
  \/ \E t \in Tasks : StatusCallAll(t)
  \/ \E t \in Tasks : StatusReaddir(t)
  \/ \E t \in Tasks, r \in BOOLEAN : StatusRead(t, r)
  \/ \E t \in Tasks : StatusGot(t)
  \/ \E w \in writes : WriteOpen(w)
  \/ \E w \in writes : WriteData(w)
  \/ Tick

\* sets and getStatus calls of three tasks, while time passes
SpecStatus == Init /\ [][NextStatus]_vars

\* the getStatus calls that have returned
StatusResults == {r \in Finished : r.kind = "statuses"}

\* C30: getStatus never returns a status with exists = true and expired = true
\* (an entry past its TTL is reported as exists = false, without the other
\* fields), and getStatus() without argument returns exactly one status for
\* each database id that is in memory or has a durable file.
C30_NoExpiredStatus ==
  \A r \in StatusResults :
    /\ \A i \in DOMAIN r.statuses :
         LET s == r.statuses[i] IN
         IF s.exists THEN ~s.expired
         ELSE DOMAIN s = {"dbId", "exists"}
    /\ r.call.arg = "" =>
         /\ {r.statuses[i].dbId : i \in DOMAIN r.statuses} = r.ids
         /\ Len(r.statuses) = Cardinality(r.ids)

=============================================================================
